---- MODULE Spec2Model ----
(***************************************************************************)
(* Model of the sandbox lifecycle orchestrator of                          *)
(* src/lib/k8s/sandbox-manager.ts (class SandboxManager): the status       *)
(* derivation, and the create / stop / start / update / delete operations  *)
(* run against a cluster that answers every request atomically, and the   *)
(* remote exec bridge.                                                     *)
(***************************************************************************)
EXTENDS Integers, FiniteSets, Sequences, TLC

VARIABLES
    input,      \* pure-function specifications: the drawn input
    output,     \* pure-function specifications: the computed result
    client,     \* the error shape the cluster client library throws
    sts,        \* the workload (StatefulSet) of the sandbox, or NoSts
    svc,        \* the service S-service exists
    ing,        \* for each route, whether its ingress exists
    env,        \* the environment of the workload's primary container
    pvc,        \* the storage claim <template>-S-0 exists
    faults,     \* request failures the cluster may still answer with
    pc,         \* position of each caller in the operation it runs
    call,       \* locals and request log of each caller's current call
    last        \* the previous completed call (serial history)

vars == <<input, output, client, sts, svc, ing, env, pvc, faults, pc, call, last>>

pureVars == <<input, output>>
clusterVars == <<sts, svc, ing>>
lifeVars == <<sts, svc, ing, env, pvc, faults, pc, call, last>>

(***************************************************************************)
(* Bounds of the model.                                                    *)
(***************************************************************************)
MaxReplicas == 2        \* replica counters range over 0..MaxReplicas
MaxCalls == 2           \* calls the serial caller makes
MaxFaults == 1          \* request failures injected in one behaviour

(***************************************************************************)
(* Errors thrown by the cluster client.  An error carries its HTTP status  *)
(* either as error.response.statusCode (shape "response"), or as           *)
(* error.code (shape "code"), or not at all (shape "plain": a network      *)
(* failure or any non-HTTP throw, status 0).                               *)
(***************************************************************************)
HttpShapes == {"response", "code"}

HttpError(shape, status) == [shape |-> shape, status |-> status]

PlainError == [shape |-> "plain", status |-> 0]

Errors == [shape : HttpShapes, status : {404, 409, 500}] \cup {PlainError}

\* Failures of a request that do not depend on the cluster's state.
Faults(shape) == {HttpError(shape, 500), PlainError}

\* isK8sNotFound of ./k8s-error-utils: the error is a not-found response.
isK8sNotFound(error) == error.status = 404

\* The inline test: typeof error === 'object' && error !== null &&
\* 'response' in error && typeof error.response === 'object' &&
\* error.response.statusCode === code
ResponseStatusIs(error, code) ==
    /\ error.shape = "response"
    /\ error.status = code

(***************************************************************************)
(* Status derivation.                                                      *)
(***************************************************************************)
\* An optional number is {} (missing) or {n}.
Opt(S) == {{}} \cup {{n} : n \in S}

\* `x || 0`
OrZero(x) == IF x = {} THEN 0 ELSE CHOOSE v \in x : TRUE

Counters == 0..MaxReplicas

\* The fields of a V1StatefulSet the status derivation reads.
StsObjects ==
    [specReplicas : Opt(Counters), statusReplicas : Opt(Counters),
     readyReplicas : Opt(Counters), currentReplicas : Opt(Counters),
     updatedReplicas : Opt(Counters)]

\* A read's answer: the object (in {body} or bare, as the client library
\* returns it), or an error.
ReadOk(obj) == [kind |-> "ok", obj |-> obj]
ReadErr(error) == [kind |-> "err", error |-> error]

Returned(value) == [thrown |-> FALSE, value |-> value]
Thrown(error) == [thrown |-> TRUE, error |-> error]

\* Mutant: a not-found answer of the read is rethrown.
getStatefulSetRethrows(resp) ==
    IF resp.kind = "ok"
    THEN Returned({resp.obj})
    ELSE Thrown(resp.error)

\* getStatefulSet: the object as {obj}, null as {} on not-found, any
\* other error rethrown.  `body || response` yields the object in both
\* response formats.
getStatefulSet(resp) ==
    IF resp.kind = "ok"
    THEN Returned({resp.obj})
    ELSE IF isK8sNotFound(resp.error)
         THEN Returned({})
         ELSE Thrown(resp.error)

Detail(status, replicas, ready, current, updated, isReady) ==
    [status |-> status, replicas |-> replicas, readyReplicas |-> ready,
     currentReplicas |-> current, updatedReplicas |-> updated,
     isReady |-> isReady]

ZeroDetail(status) == Detail(status, 0, 0, 0, 0, FALSE)

\* Mutant: readiness ignores the updated-replica counter.
deriveStatusNoUpdated(statefulSet) ==
    LET specReplicas == OrZero(statefulSet.specReplicas)
        statusReplicas == OrZero(statefulSet.statusReplicas)
        readyReplicas == OrZero(statefulSet.readyReplicas)
        currentReplicas == OrZero(statefulSet.currentReplicas)
        updatedReplicas == OrZero(statefulSet.updatedReplicas)
        isReady == /\ specReplicas > 0
                   /\ statusReplicas = specReplicas
                   /\ readyReplicas = specReplicas
                   /\ currentReplicas = specReplicas
        status == IF specReplicas = 0
                  THEN IF currentReplicas > 0 THEN "STOPPING" ELSE "STOPPED"
                  ELSE IF isReady THEN "RUNNING" ELSE "STARTING"
    IN Detail(status, specReplicas, readyReplicas, currentReplicas,
              updatedReplicas, isReady)

\* Mutant: a scaled-down workload is classified by its ready replicas.
deriveStatusByReady(statefulSet) ==
    LET specReplicas == OrZero(statefulSet.specReplicas)
        statusReplicas == OrZero(statefulSet.statusReplicas)
        readyReplicas == OrZero(statefulSet.readyReplicas)
        currentReplicas == OrZero(statefulSet.currentReplicas)
        updatedReplicas == OrZero(statefulSet.updatedReplicas)
        isReady == /\ specReplicas > 0
                   /\ statusReplicas = specReplicas
                   /\ readyReplicas = specReplicas
                   /\ currentReplicas = specReplicas
                   /\ updatedReplicas = specReplicas
        status == IF specReplicas = 0
                  THEN IF readyReplicas > 0 THEN "STOPPING" ELSE "STOPPED"
                  ELSE IF isReady THEN "RUNNING" ELSE "STARTING"
    IN Detail(status, specReplicas, readyReplicas, currentReplicas,
              updatedReplicas, isReady)

\* Mutant: a workload declared with zero replicas whose pods are still
\* ready is reported by its pods.
deriveStatusByObserved(statefulSet) ==
    LET specReplicas == OrZero(statefulSet.specReplicas)
        statusReplicas == OrZero(statefulSet.statusReplicas)
        readyReplicas == OrZero(statefulSet.readyReplicas)
        currentReplicas == OrZero(statefulSet.currentReplicas)
        updatedReplicas == OrZero(statefulSet.updatedReplicas)
        isReady == /\ specReplicas > 0
                   /\ statusReplicas = specReplicas
                   /\ readyReplicas = specReplicas
                   /\ currentReplicas = specReplicas
                   /\ updatedReplicas = specReplicas
        status == IF specReplicas = 0 /\ readyReplicas = 0
                  THEN IF currentReplicas > 0 THEN "STOPPING" ELSE "STOPPED"
                  ELSE IF isReady \/ specReplicas = 0 THEN "RUNNING"
                  ELSE "STARTING"
    IN Detail(status, specReplicas, readyReplicas, currentReplicas,
              updatedReplicas, isReady)

\* getStatefulSetStatus, the part after the read found the object.
deriveStatus(statefulSet) ==
    LET specReplicas == OrZero(statefulSet.specReplicas)
        statusReplicas == OrZero(statefulSet.statusReplicas)
        readyReplicas == OrZero(statefulSet.readyReplicas)
        currentReplicas == OrZero(statefulSet.currentReplicas)
        updatedReplicas == OrZero(statefulSet.updatedReplicas)
        isReady == /\ specReplicas > 0
                   /\ statusReplicas = specReplicas
                   /\ readyReplicas = specReplicas
                   /\ currentReplicas = specReplicas
                   /\ updatedReplicas = specReplicas
        status == IF specReplicas = 0
                  THEN IF currentReplicas > 0 THEN "STOPPING" ELSE "STOPPED"
                  ELSE IF isReady THEN "RUNNING" ELSE "STARTING"
    IN Detail(status, specReplicas, readyReplicas, currentReplicas,
              updatedReplicas, isReady)

\* Mutant: the catch block rethrows what is not a not-found response.
statusOfErrorRethrows(error) ==
    IF ResponseStatusIs(error, 404)
    THEN Returned(ZeroDetail("TERMINATED"))
    ELSE Thrown(error)

\* getStatefulSetStatus, the catch block.
statusOfError(error) ==
    IF ResponseStatusIs(error, 404)
    THEN Returned(ZeroDetail("TERMINATED"))
    ELSE Returned(ZeroDetail("ERROR"))

\* getStatefulSetStatus(sandboxName, namespace), given the cluster's answer
\* to the read of the workload sandboxName in namespace.
getStatefulSetStatus(resp) ==
    LET got == getStatefulSet(resp)
    IN IF got.thrown
       THEN statusOfError(got.error)
       ELSE IF got.value = {}
            THEN Returned(ZeroDetail("TERMINATED"))
            ELSE Returned(deriveStatus(CHOOSE o \in got.value : TRUE))

(***************************************************************************)
(* The cluster.  Every request is answered atomically: with a failure that *)
(* does not depend on the cluster's state (fault), or according to whether *)
(* the named object exists.  NoFault says that no failure is injected.     *)
(***************************************************************************)
NoFault == [shape |-> "none", status |-> 0]

FaultChoices(shape) == {NoFault} \cup Faults(shape)

\* readNamespacedStatefulSet: the stored object, 404 when there is none.
readNamespacedStatefulSet(stored, fault, shape) ==
    IF fault # NoFault THEN ReadErr(fault)
    ELSE IF stored = {} THEN ReadErr(HttpError(shape, 404))
    ELSE ReadOk(CHOOSE o \in stored : TRUE)

(***************************************************************************)
(* The sandbox of the lifecycle specifications, its callers and its        *)
(* routes.                                                                 *)
(***************************************************************************)
Namespaces == {"ns1", "ns2"}
SandboxNames == {"acme-x1", "acme-x2"}

Procs == {1, 2}
Routes == {"app", "ttyd", "filebrowser"}

\* The sandbox all callers of the lifecycle specifications operate on.
SandboxName == "acme-x1"
IngressDomain == "usw.example.io"

\* The TTYD_ACCESS_TOKEN of the envVars the callers pass to createSandbox.
TtydAccessToken == "tok-1"

\* The domains and tokens createSandbox is called with.
IngressDomains == {"usw.example.io", "cn.example.dev"}
Tokens == {"tok-1", "s3cret", "a"}

\* The project the sandbox belongs to.
ProjectName == "acme"

\* A Record<string, string> is a function from its keys to their values.
NoEnv == [k \in {} |-> ""]

EnvMap(keys, value) == [k \in keys |-> value]

\* map[key], {} standing for undefined.
MapGet(map, key) == IF key \in DOMAIN map THEN {map[key]} ELSE {}

\* {...a, ...b}
Merge(a, b) ==
    [k \in DOMAIN a \cup DOMAIN b |-> IF k \in DOMAIN b THEN b[k] ELSE a[k]]

\* The envVars of the callers of the lifecycle specifications.
DefaultEnvVars == EnvMap({"TTYD_ACCESS_TOKEN"}, TtydAccessToken)

\* The env array of a container: for each name the value of its entry as
\* {value}, or {} for an entry without a literal value (undefined: a
\* valueFrom reference).  EnvArray is
\* Object.entries(map).map(([key, value]) => ({name: key, value})).
EnvArray(map) == [k \in DOMAIN map |-> {map[k]}]

\* createSandbox: containerEnv = {...envVars, PROJECT_NAME: projectName}
containerEnv(envVars, projectName) ==
    Merge(envVars, EnvMap({"PROJECT_NAME"}, projectName))

NoSts == [exists |-> FALSE]

\* Mutant: createStatefulSet submits two replicas.
NewStsTwoReplicas == [exists |-> TRUE, replicas |-> 2]

\* The workload createStatefulSet submits (spec.replicas: 1).
CreatedReplicas == 1
NewSts == [exists |-> TRUE, replicas |-> CreatedReplicas]

\* What a read of the workload returns: the stored object, its observed
\* counters not yet reported.
StoredObj(w) ==
    IF w.exists
    THEN {[specReplicas |-> {w.replicas}, statusReplicas |-> {},
           readyReplicas |-> {}, currentReplicas |-> {},
           updatedReplicas |-> {}]}
    ELSE {}

NoError == [shape |-> "none", status |-> 0]
Void == [kind |-> "void"]
Bool(b) == [kind |-> "boolean", value |-> b]

\* Naming scheme.
getServiceName(sandboxName) == sandboxName \o "-service"
getAppIngressName(sandboxName) == sandboxName \o "-app-ingress"
getTtydIngressName(sandboxName) == sandboxName \o "-ttyd-ingress"
getFileBrowserIngressName(sandboxName) == sandboxName \o "-filebrowser-ingress"

\* Buffer.from(credentials): the UTF-8 bytes of the credentials the
\* callers' tokens give.
Utf8(credentials) ==
    CASE credentials = "user:" -> <<117, 115, 101, 114, 58>>
      [] credentials = "user:tok-1" ->
            <<117, 115, 101, 114, 58, 116, 111, 107, 45, 49>>
      [] credentials = "user:s3cret" ->
            <<117, 115, 101, 114, 58, 115, 51, 99, 114, 101, 116>>
      [] credentials = "user:a" ->
            <<117, 115, 101, 114, 58, 97>>

Base64Alphabet ==
    <<"A", "B", "C", "D", "E", "F", "G", "H", "I", "J", "K", "L", "M",
      "N", "O", "P", "Q", "R", "S", "T", "U", "V", "W", "X", "Y", "Z",
      "a", "b", "c", "d", "e", "f", "g", "h", "i", "j", "k", "l", "m",
      "n", "o", "p", "q", "r", "s", "t", "u", "v", "w", "x", "y", "z",
      "0", "1", "2", "3", "4", "5", "6", "7", "8", "9", "+", "/">>

Sextet(n) == Base64Alphabet[n + 1]

\* toString('base64') of a byte sequence: three bytes give four
\* characters, a last group of one or two bytes is padded with '='.
RECURSIVE Base64Chars(_)
Base64Chars(bytes) ==
    IF Len(bytes) = 0 THEN ""
    ELSE IF Len(bytes) = 1
    THEN Sextet(bytes[1] \div 4) \o Sextet((bytes[1] % 4) * 16) \o "=="
    ELSE IF Len(bytes) = 2
    THEN Sextet(bytes[1] \div 4)
            \o Sextet((bytes[1] % 4) * 16 + bytes[2] \div 16)
            \o Sextet((bytes[2] % 16) * 4) \o "="
    ELSE Sextet(bytes[1] \div 4)
            \o Sextet((bytes[1] % 4) * 16 + bytes[2] \div 16)
            \o Sextet((bytes[2] % 16) * 4 + bytes[3] \div 64)
            \o Sextet(bytes[3] % 64)
            \o Base64Chars(SubSeq(bytes, 4, Len(bytes)))

\* Buffer.from(credentials).toString('base64')
Base64(credentials) == Base64Chars(Utf8(credentials))

\* Mutant: an empty string counts as a token.
TruthyDefined(opt) == opt # {}

\* `if (ttydAccessToken)`: neither undefined nor the empty string.
Truthy(opt) == opt # {} /\ opt # {""}

\* The SandboxInfo createSandbox returns.
SandboxInfo(sandboxName, ingressDomain, envVars) ==
    LET baseTtydUrl == "https://" \o sandboxName \o "-ttyd." \o ingressDomain
        ttydAccessToken == MapGet(envVars, "TTYD_ACCESS_TOKEN")
    IN [kind |-> "SandboxInfo",
        statefulSetName |-> sandboxName,
        serviceName |-> getServiceName(sandboxName),
        publicUrl |-> "https://" \o sandboxName \o "-app." \o ingressDomain,
        ttydUrl |-> IF Truthy(ttydAccessToken)
                    THEN baseTtydUrl \o "?authorization="
                            \o Base64("user:" \o
                                     (CHOOSE t \in ttydAccessToken : TRUE))
                    ELSE baseTtydUrl,
        fileBrowserUrl |-> "https://" \o sandboxName \o "-filebrowser."
                              \o ingressDomain]

\* What is remembered of a completed call.
Summary(op, arg, outcome, ret, patches, replaces) ==
    [op |-> op, arg |-> arg, outcome |-> outcome, ret |-> ret,
     patches |-> patches, replaces |-> replaces]

NoSummary == Summary("none", NoEnv, "none", Void, <<>>, <<>>)

TasksIdle == [r \in Routes |-> "idle"]

\* The resources deleteSandbox deletes, and the state of one deletion:
\* idle, delete (issued), ok or failed, with the error the cluster
\* answered the request with.
DeleteTargets == {"sts", "svc", "pvc"} \cup Routes

DelTask(st, error) == [st |-> st, error |-> error]

DelsIdle == [t \in DeleteTargets |-> DelTask("idle", NoError)]

\* A caller's call: the operation and its envVars argument, the cluster
\* at its begin (pre) and the call completed before it (prev), the route
\* tasks of createIngresses and the deletions of deleteSandbox, the
\* requests it issued (creates, patches, replaces), the existence checks
\* of it that failed (checks), the workload object updateStatefulSetEnvVars
\* built from the one it read (body), the writes of the workload object
\* the caller's calls have made so far (writes), the request failures
\* injected into it (hit), and how it ended.
NewCall(op, arg, n, pre, prev) ==
    [op |-> op, arg |-> arg, n |-> n, pre |-> pre, prev |-> prev,
     tasks |-> TasksIdle, dels |-> DelsIdle, creates |-> {}, checks |-> {},
     patches |-> <<>>, replaces |-> <<>>,
     body |-> [replicas |-> 0, env |-> NoEnv, resourceVersion |-> 0],
     writes |-> 0, hit |-> 0,
     outcome |-> "pending", ret |-> Void, error |-> NoError]

NoCall ==
    [NewCall("none", NoEnv, 0,
             <<NoSts, FALSE, [r \in Routes |-> FALSE], FALSE, NoEnv>>,
             NoSummary)
     EXCEPT !.outcome = "none"]

(***************************************************************************)
(* Specification SpecStatus: getStatefulSetStatus as a function of the     *)
(* namespace, the sandbox name, the workload the cluster stores under that *)
(* name (none, or an object with any counters, present or missing), the    *)
(* failure of the read and the client's error shape.                       *)
(***************************************************************************)
NoOutput == [thrown |-> FALSE, value |-> ZeroDetail("none")]

StatusInputs ==
    [namespace : Namespaces, sandboxName : SandboxNames,
     stored : {{}} \cup {{o} : o \in StsObjects},
     fault : {NoFault, HttpError("response", 500), HttpError("code", 500),
              PlainError}]

InitStatus ==
    /\ input \in StatusInputs
    /\ output = NoOutput
    /\ client \in HttpShapes
    /\ input.fault.shape \in {"none", "plain", client}
    /\ sts = NoSts
    /\ svc = FALSE
    /\ ing = [r \in Routes |-> FALSE]
    /\ env = NoEnv
    /\ pvc = FALSE
    /\ faults = 0
    /\ pc = [p \in Procs |-> "idle"]
    /\ call = [p \in Procs |-> NoCall]
    /\ last = NoSummary

\* The call getStatefulSetStatus(input.sandboxName, input.namespace).
StatusCall ==
    /\ output = NoOutput
    /\ output' = getStatefulSetStatus(
                    readNamespacedStatefulSet(input.stored, input.fault, client))
    /\ UNCHANGED <<input, client>>
    /\ UNCHANGED lifeVars

NextStatus == StatusCall

SpecStatus == InitStatus /\ [][NextStatus]_vars

StatusDone == output # NoOutput

\* The object the read of the status call found, when it found one.
StatusObj == CHOOSE o \in input.stored : TRUE

StatusFoundObject == StatusDone /\ input.fault = NoFault /\ input.stored # {}

Declared == OrZero(StatusObj.specReplicas)

\* C1: on an existing workload with declared replicas d > 0, the status is
\* RUNNING exactly when the observed-total, ready, current and updated
\* counters (missing ones counting as 0) all equal d, and STARTING
\* in every other case.
C1_RunningIffAllEqual ==
    (StatusFoundObject /\ Declared > 0) =>
        /\ ~output.thrown
        /\ output.value.status =
             IF \A f \in {"statusReplicas", "readyReplicas", "currentReplicas",
                          "updatedReplicas"} :
                    OrZero(StatusObj[f]) = Declared
             THEN "RUNNING" ELSE "STARTING"

\* declared=2, total=2, ready=2, current=2, updated=1 was classified, and
\* as STARTING.
C1_Witness ==
    /\ StatusFoundObject
    /\ StatusObj = [specReplicas |-> {2}, statusReplicas |-> {2},
                    readyReplicas |-> {2}, currentReplicas |-> {2},
                    updatedReplicas |-> {1}]
    /\ output.value.status = "STARTING"

\* C2: on an existing workload with declared replicas 0 (or missing), the
\* status is STOPPING when the current-replica count is greater than 0 and
\* STOPPED when it is 0, whatever the other counters are.
C2_StoppedOrStopping ==
    (StatusFoundObject /\ Declared = 0) =>
        /\ ~output.thrown
        /\ output.value.status =
             IF OrZero(StatusObj.currentReplicas) > 0
             THEN "STOPPING" ELSE "STOPPED"

\* declared=0 with no current replica but ready and updated replicas
\* reported was classified as STOPPED.
C2_Witness ==
    /\ StatusFoundObject
    /\ StatusObj.specReplicas = {0}
    /\ StatusObj.currentReplicas = {0}
    /\ StatusObj.readyReplicas = {2}
    /\ StatusObj.statusReplicas = {1}
    /\ output.value.status = "STOPPED"

\* C3: for every namespace and sandbox name, the status of a sandbox whose
\* workload does not exist (the read is answered 404) is TERMINATED with
\* all counters 0 and isReady false, and nothing is thrown.
C3_AbsentIsTerminated ==
    (StatusDone /\ input.fault = NoFault /\ input.stored = {}) =>
        output = Returned(ZeroDetail("TERMINATED"))

\* A status call on an absent workload, answered 404 in the shape with
\* error.code, has returned.
C3_Witness ==
    /\ StatusDone
    /\ input.fault = NoFault
    /\ input.stored = {}
    /\ client = "code"
    /\ input.namespace = "ns2"
    /\ output.value.status = "TERMINATED"

\* C4: when the read fails the call never throws: a not-found failure
\* yields TERMINATED, every other failure (of any shape) ERROR, both with
\* all four counters 0 and isReady false.
C4_ReadFailureNeverThrows ==
    LET resp == readNamespacedStatefulSet(input.stored, input.fault, client)
    IN (StatusDone /\ resp.kind = "err") =>
          output = Returned(ZeroDetail(IF resp.error.status = 404
                                       THEN "TERMINATED" ELSE "ERROR"))

\* A read that failed with a network error (no status code at all) while
\* the workload exists has been reported as ERROR.
C4_Witness ==
    /\ StatusDone
    /\ input.fault = PlainError
    /\ input.stored # {}
    /\ output = Returned(ZeroDetail("ERROR"))


(***************************************************************************)
(* Lifecycle operations.  A caller runs one call at a time; every awaited  *)
(* request of a call is one step.                                          *)
(***************************************************************************)
\* The choice of a request's failure, while failures remain.
Inject(f) ==
    /\ f \in FaultChoices(client)
    /\ f # NoFault => faults > 0
    /\ faults' = IF f = NoFault THEN faults ELSE faults - 1

Hit(c, f) == IF f = NoFault THEN c ELSE [c EXCEPT !.hit = @ + 1]

Ok == [kind |-> "ok"]
Err(error) == [kind |-> "err", error |-> error]

\* The cluster's answer to a read, patch or delete of an object.
AnswerExisting(exists, f) ==
    IF f # NoFault THEN Err(f)
    ELSE IF exists THEN Ok ELSE Err(HttpError(client, 404))

\* The cluster's answer to a create of an object.
AnswerCreate(exists, f) ==
    IF f # NoFault THEN Err(f)
    ELSE IF exists THEN Err(HttpError(client, 409)) ELSE Ok

\* The call returns or throws: its caller has the result.
Decide(p, c, outcome, ret, error) ==
    /\ pc' = [pc EXCEPT ![p] = "done"]
    /\ call' = [call EXCEPT ![p] =
                  [c EXCEPT !.outcome = outcome, !.ret = ret, !.error = error]]
    /\ last' = Summary(c.op, c.arg, outcome, ret, c.patches, c.replaces)

Goto(p, c, pos) ==
    /\ pc' = [pc EXCEPT ![p] = pos]
    /\ call' = [call EXCEPT ![p] = c]
    /\ UNCHANGED last

\* No request of the caller's call is in flight.
TasksSettled(p) ==
    /\ \A r \in Routes : call[p].tasks[r] \notin {"read", "create"}
    /\ \A t \in DeleteTargets : call[p].dels[t].st # "delete"

Cluster == <<sts, svc, ing, pvc, env>>

\* metadata.resourceVersion of the workload object: the cluster changes it
\* with every write of the object (create, patch, replace, delete).
resourceVersion == call[1].writes + call[2].writes

\* The caller's call has written the workload object.
Wrote(c) == [c EXCEPT !.writes = @ + 1]

Ops == {"create", "stop", "start"}

FirstPos(op) ==
    CASE op = "create" -> "create_sts_read"
      [] op = "stop" -> "stop_read"
      [] op = "start" -> "start_read"
      [] op = "update" -> "update_read"
      [] op = "delete" -> "delete_wait"

\* deleteSandbox is entered: its six delete requests are issued.
EnterDelete(c) ==
    [c EXCEPT !.dels = [t \in DeleteTargets |-> DelTask("delete", NoError)]]

\* A caller begins one of the operations ops with one of the envVars args.
BeginOf(p, ops, args) ==
    /\ pc[p] \in {"idle", "done"}
    /\ TasksSettled(p)
    /\ \E op \in ops, arg \in args :
          LET c == [NewCall(op, arg, call[p].n + 1, Cluster, last)
                    EXCEPT !.writes = call[p].writes]
          IN /\ pc' = [pc EXCEPT ![p] = FirstPos(op)]
             /\ call' = [call EXCEPT ![p] =
                           IF op = "delete" THEN EnterDelete(c) ELSE c]
    /\ UNCHANGED <<pureVars, client, env, pvc, clusterVars, faults, last>>

\* A caller begins createSandbox, stopSandbox or startSandbox.
Begin(p) == BeginOf(p, Ops, {DefaultEnvVars})

\* Each of the callers makes one call, at any time.  The callers are
\* alike: they are numbered in the order of their calls.
BeginCall(p) ==
    /\ call[p].n = 0
    /\ \A q \in Procs : q < p => call[q].n > 0
    /\ Begin(p)

\* No call is running and no request of an earlier call is in flight.
Quiescent == \A q \in Procs : pc[q] \in {"idle", "done"} /\ TasksSettled(q)

\* A call of the single caller that awaits each call before the next.
BeginSerial(p) ==
    /\ p = 1
    /\ Quiescent
    /\ call[p].n < MaxCalls
    /\ Begin(p)

\* Replica counts the patches write.
StopReplicas == 0
StartReplicas == 1

\* Mutant: stopSandbox returns without patching whenever the workload exists.
stopAfterReadNeverPatch(got) ==
    IF got.thrown THEN "throw" ELSE "return"

\* Mutant: stopSandbox patches whenever the workload exists.
stopAfterReadAlwaysPatch(got) ==
    IF got.thrown THEN "throw"
    ELSE IF got.value = {} THEN "return"
    ELSE "patch"

\* Mutant: stopSandbox returns normally when its read failed.
stopAfterReadSwallows(got) ==
    IF got.thrown THEN "return"
    ELSE IF got.value = {} THEN "return"
    ELSE IF OrZero((CHOOSE o \in got.value : TRUE).specReplicas) = 0
         THEN "return"
         ELSE "patch"

\* stopSandbox, after getStatefulSet: rethrow, return, or go on to patch.
stopAfterRead(got) ==
    IF got.thrown THEN "throw"
    ELSE IF got.value = {} THEN "return"
    ELSE IF OrZero((CHOOSE o \in got.value : TRUE).specReplicas) = 0
         THEN "return"
         ELSE "patch"

\* Mutant: startSandbox patches unless the declared count is exactly 1.
startAfterReadExactlyOne(got) ==
    IF got.thrown THEN "throw"
    ELSE IF got.value = {} THEN "return"
    ELSE IF OrZero((CHOOSE o \in got.value : TRUE).specReplicas) = 1
         THEN "return"
         ELSE "patch"

\* startSandbox, after getStatefulSet.
startAfterRead(got) ==
    IF got.thrown THEN "throw"
    ELSE IF got.value = {} THEN "return"
    ELSE IF OrZero((CHOOSE o \in got.value : TRUE).specReplicas) >= 1
         THEN "return"
         ELSE "patch"

\* What getStatefulSet yields on the cluster's answer to its read.
GotSts(f) ==
    getStatefulSet(readNamespacedStatefulSet(StoredObj(sts), f, client))

\* The read of stopSandbox or startSandbox, answered with failure f or
\* according to the cluster, and the branch d taken on it.
ScaleRead(p, f, d, patchPos) ==
    /\ Inject(f)
    /\ LET c == Hit(call[p], f)
       IN CASE d = "throw" -> Decide(p, c, "thrown", Void, GotSts(f).error)
            [] d = "return" -> Decide(p, c, "ok", Void, NoError)
            [] d = "patch" -> Goto(p, c, patchPos)
    /\ UNCHANGED <<pureVars, client, env, pvc, clusterVars>>

\* Mutant: the workload's storage claims are deleted when it is scaled down.
retentionPolicyDeleteWhenScaled ==
    [whenDeleted |-> "Delete", whenScaled |-> "Delete"]

\* The retention policy createStatefulSet gives the workload it creates.
persistentVolumeClaimRetentionPolicy ==
    [whenDeleted |-> "Delete", whenScaled |-> "Retain"]

\* The storage claim after the declared replica count went from one value
\* to another: the cluster removes the claim of a replica that is scaled
\* away unless the policy retains it.
AfterScale(claim, from, to) ==
    IF to < from /\ persistentVolumeClaimRetentionPolicy.whenScaled = "Delete"
    THEN FALSE
    ELSE claim

\* Mutant: the patch is refused with a conflict while another caller's call
\* is running.
ScalePatchLocked(p, value) ==
    \E f \in FaultChoices(client) :
       /\ Inject(f)
       /\ LET c == [Hit(call[p], f) EXCEPT !.patches = Append(@, value)]
              ans == IF \E q \in Procs \ {p} : pc[q] \notin {"idle", "done"}
                     THEN Err(HttpError(client, 409))
                     ELSE AnswerExisting(sts.exists, f)
          IN IF ans.kind = "ok"
             THEN /\ sts' = [sts EXCEPT !.replicas = value]
                  /\ pvc' = AfterScale(pvc, sts.replicas, value)
                  /\ Decide(p, Wrote(c), "ok", Void, NoError)
             ELSE /\ sts' = sts
                  /\ pvc' = pvc
                  /\ Decide(p, c, "thrown", Void, ans.error)
       /\ UNCHANGED <<pureVars, client, env, svc, ing>>

\* patchNamespacedStatefulSet with [{op: replace, path: /spec/replicas,
\* value}], and the return or rethrow after it.
ScalePatch(p, value) ==
    \E f \in FaultChoices(client) :
       /\ Inject(f)
       /\ LET c == [Hit(call[p], f) EXCEPT !.patches = Append(@, value)]
              ans == AnswerExisting(sts.exists, f)
          IN IF ans.kind = "ok"
             THEN /\ sts' = [sts EXCEPT !.replicas = value]
                  /\ pvc' = AfterScale(pvc, sts.replicas, value)
                  /\ Decide(p, Wrote(c), "ok", Void, NoError)
             ELSE /\ sts' = sts
                  /\ pvc' = pvc
                  /\ Decide(p, c, "thrown", Void, ans.error)
       /\ UNCHANGED <<pureVars, client, env, svc, ing>>

StopRead(p) ==
    /\ pc[p] = "stop_read"
    /\ \E f \in FaultChoices(client) :
          ScaleRead(p, f, stopAfterRead(GotSts(f)), "stop_patch")

StopPatch(p) ==
    /\ pc[p] = "stop_patch"
    /\ ScalePatch(p, StopReplicas)

StartRead(p) ==
    /\ pc[p] = "start_read"
    /\ \E f \in FaultChoices(client) :
          ScaleRead(p, f, startAfterRead(GotSts(f)), "start_patch")

StartPatch(p) ==
    /\ pc[p] = "start_patch"
    /\ ScalePatch(p, StartReplicas)

(***************************************************************************)
(* createSandbox: createStatefulSet, then createService, then              *)
(* createIngresses, whose three createIngressIfNotExists run concurrently  *)
(* under Promise.all.                                                      *)
(***************************************************************************)
\* createStatefulSet, after getStatefulSet.
createStsAfterRead(got) ==
    IF got.thrown THEN "throw"
    ELSE IF got.value # {} THEN "skip"
    ELSE "create"

\* createStatefulSet, after createNamespacedStatefulSet: a 409 found in
\* error.response.statusCode is success.
createStsAfterCreate(ans) ==
    IF ans.kind = "ok" THEN "next"
    ELSE IF ResponseStatusIs(ans.error, 409) THEN "next"
    ELSE "throw"

\* Mutant: createService creates without regard to the existence check.
createSvcAfterReadAlwaysCreate(ans) ==
    IF ans.kind = "ok" THEN "create"
    ELSE IF ans.error.shape = "response" /\ ans.error.status # 404 THEN "throw"
    ELSE "create"

\* createService, after readNamespacedService: an error is rethrown when it
\* has a response object whose statusCode is not 404.
createSvcAfterRead(ans) ==
    IF ans.kind = "ok" THEN "skip"
    ELSE IF ans.error.shape = "response" /\ ans.error.status # 404 THEN "throw"
    ELSE "create"

\* createService, after createNamespacedService (no catch).
createSvcAfterCreate(ans) ==
    IF ans.kind = "ok" THEN "next" ELSE "throw"

\* Mutant: createIngressIfNotExists takes a missing route for an existing
\* one.
ingressAfterReadNoCreate(ans) ==
    IF ans.kind = "ok" THEN "ok"
    ELSE IF isK8sNotFound(ans.error) THEN "ok"
    ELSE "failed"

\* createIngressIfNotExists, after readNamespacedIngress.
ingressAfterRead(ans) ==
    IF ans.kind = "ok" THEN "ok"
    ELSE IF isK8sNotFound(ans.error) THEN "create"
    ELSE "failed"

\* createIngressIfNotExists, after createNamespacedIngress (no catch).
ingressAfterCreate(ans) ==
    IF ans.kind = "ok" THEN "ok" ELSE "failed"

\* The existence check of resource t was answered ans: a failure other
\* than not-found is recorded.
Checked(c, t, ans) ==
    IF ans.kind = "err" /\ ans.error.status # 404
    THEN [c EXCEPT !.checks = @ \cup {t}]
    ELSE c

\* createIngresses is entered: the three reads are issued.
EnterIngresses(c) == [c EXCEPT !.tasks = [r \in Routes |-> "read"]]

\* Mutant: createStatefulSet applies the new workload over an existing one.
CreateStsReadApplies(p) ==
    /\ pc[p] = "create_sts_read"
    /\ \E f \in FaultChoices(client) :
          /\ Inject(f)
          /\ LET c == Checked(Hit(call[p], f), "sts",
                              readNamespacedStatefulSet(StoredObj(sts), f,
                                                        client))
                 got == GotSts(f)
                 d == createStsAfterRead(got)
             IN /\ sts' = IF d = "skip" THEN NewSts ELSE sts
                /\ env' = IF d = "skip"
                          THEN EnvArray(containerEnv(c.arg, ProjectName))
                          ELSE env
                /\ CASE d = "throw" -> Decide(p, c, "thrown", Void, got.error)
                     [] d = "skip" -> Goto(p, c, "create_svc_read")
                     [] d = "create" -> Goto(p, c, "create_sts_create")
    /\ UNCHANGED <<pureVars, client, pvc, svc, ing>>

CreateStsRead(p) ==
    /\ pc[p] = "create_sts_read"
    /\ \E f \in FaultChoices(client) :
          /\ Inject(f)
          /\ LET c == Checked(Hit(call[p], f), "sts",
                              readNamespacedStatefulSet(StoredObj(sts), f,
                                                        client))
                 got == GotSts(f)
                 d == createStsAfterRead(got)
             IN CASE d = "throw" -> Decide(p, c, "thrown", Void, got.error)
                  [] d = "skip" -> Goto(p, c, "create_svc_read")
                  [] d = "create" -> Goto(p, c, "create_sts_create")
    /\ UNCHANGED <<pureVars, client, env, pvc, clusterVars>>

CreateStsCreate(p) ==
    /\ pc[p] = "create_sts_create"
    /\ \E f \in FaultChoices(client) :
          /\ Inject(f)
          /\ LET c == [Hit(call[p], f) EXCEPT !.creates = @ \cup {"sts"}]
                 ans == AnswerCreate(sts.exists, f)
                 d == createStsAfterCreate(ans)
             IN /\ sts' = IF ans.kind = "ok" THEN NewSts ELSE sts
                /\ env' = IF ans.kind = "ok"
                          THEN EnvArray(containerEnv(c.arg, ProjectName))
                          ELSE env
                /\ CASE d = "throw" -> Decide(p, c, "thrown", Void, ans.error)
                     [] d = "next" ->
                           Goto(p, IF ans.kind = "ok" THEN Wrote(c) ELSE c,
                                "create_svc_read")
    /\ UNCHANGED <<pureVars, client, pvc, svc, ing>>

CreateSvcRead(p) ==
    /\ pc[p] = "create_svc_read"
    /\ \E f \in FaultChoices(client) :
          /\ Inject(f)
          /\ LET ans == AnswerExisting(svc, f)
                 c == Checked(Hit(call[p], f), "svc", ans)
                 d == createSvcAfterRead(ans)
             IN CASE d = "throw" -> Decide(p, c, "thrown", Void, ans.error)
                  [] d = "skip" -> Goto(p, EnterIngresses(c), "create_ing")
                  [] d = "create" -> Goto(p, c, "create_svc_create")
    /\ UNCHANGED <<pureVars, client, env, pvc, clusterVars>>

CreateSvcCreate(p) ==
    /\ pc[p] = "create_svc_create"
    /\ \E f \in FaultChoices(client) :
          /\ Inject(f)
          /\ LET c == [Hit(call[p], f) EXCEPT !.creates = @ \cup {"svc"}]
                 ans == AnswerCreate(svc, f)
                 d == createSvcAfterCreate(ans)
             IN /\ svc' = IF ans.kind = "ok" THEN TRUE ELSE svc
                /\ CASE d = "throw" -> Decide(p, c, "thrown", Void, ans.error)
                     [] d = "next" -> Goto(p, EnterIngresses(c), "create_ing")
    /\ UNCHANGED <<pureVars, client, env, pvc, sts, ing>>

\* A task of Promise.all has settled.  While createSandbox awaits the
\* three tasks, the first rejection is thrown to its caller and the
\* fulfilment of all three lets it return the SandboxInfo; a task that
\* settles after the call has thrown changes nothing for the caller.
TaskSettles(p, c, error) ==
    IF pc[p] # "create_ing"
    THEN /\ call' = [call EXCEPT ![p] = c]
         /\ UNCHANGED <<pc, last>>
    ELSE IF \E r \in Routes : c.tasks[r] = "failed"
    THEN Decide(p, c, "thrown", Void, error)
    ELSE IF \A r \in Routes : c.tasks[r] = "ok"
    THEN Decide(p, c, "ok",
                SandboxInfo(input.sandboxName, input.ingressDomain, c.arg),
                NoError)
    ELSE Goto(p, c, "create_ing")

IngressRead(p, r) ==
    /\ call[p].tasks[r] = "read"
    /\ \E f \in FaultChoices(client) :
          /\ Inject(f)
          /\ LET ans == AnswerExisting(ing[r], f)
                 c == [Checked(Hit(call[p], f), r, ans) EXCEPT
                          !.tasks[r] = ingressAfterRead(ans)]
             IN TaskSettles(p, c, IF ans.kind = "ok" THEN NoError ELSE ans.error)
    /\ UNCHANGED <<pureVars, client, env, pvc, clusterVars>>

IngressCreate(p, r) ==
    /\ call[p].tasks[r] = "create"
    /\ \E f \in FaultChoices(client) :
          /\ Inject(f)
          /\ LET ans == AnswerCreate(ing[r], f)
                 c == [Hit(call[p], f) EXCEPT
                          !.tasks[r] = ingressAfterCreate(ans),
                          !.creates = @ \cup {r}]
             IN /\ ing' = IF ans.kind = "ok" THEN [ing EXCEPT ![r] = TRUE] ELSE ing
                /\ TaskSettles(p, c, IF ans.kind = "ok" THEN NoError ELSE ans.error)
    /\ UNCHANGED <<pureVars, client, env, pvc, sts, svc>>

(***************************************************************************)
(* updateStatefulSetEnvVars (updateSandboxEnvVars of the service facade):  *)
(* read the workload, compare the requested variables with those of the    *)
(* primary container, and replace the workload when one differs.           *)
(***************************************************************************)
\* currentEnvMap: the entries of the env array that have a name and a
\* value (`envVar.name && envVar.value !== undefined`).
CurrentEnvMap(envArray) ==
    [k \in {n \in DOMAIN envArray : envArray[n] # {}} |->
        CHOOSE v \in envArray[k] : TRUE]

\* The env of the container named sandboxName in the workload read, as
\* {currentEnvMap}; {} when the workload has no such container.  The
\* workloads createStatefulSet submits have it.
MainContainerEnv(w, e) == IF w.exists THEN {CurrentEnvMap(e)} ELSE {}

\* Mutant: every call finds a difference.
hasChangesAlways(currentEnvMap, envVars) == TRUE

\* hasChanges: some requested key is missing from the current environment
\* or has another value there.
hasChanges(currentEnvMap, envVars) ==
    \E key \in DOMAIN envVars :
       MapGet(currentEnvMap, key) # {envVars[key]}

\* Mutant: a missing workload counts as up to date.
updateAfterReadAbsentTrue(got, mainContainer, envVars) ==
    IF got.thrown THEN "throw"
    ELSE IF got.value = {} THEN "true"
    ELSE IF mainContainer = {} THEN "false"
    ELSE IF ~hasChanges(CHOOSE m \in mainContainer : TRUE, envVars)
         THEN "true"
         ELSE "replace"

\* updateStatefulSetEnvVars, after getStatefulSet: rethrow, return false
\* (no workload, or no primary container), return true (no difference),
\* or go on to replace.
updateAfterRead(got, mainContainer, envVars) ==
    IF got.thrown THEN "throw"
    ELSE IF got.value = {} THEN "false"
    ELSE IF mainContainer = {} THEN "false"
    ELSE IF ~hasChanges(CHOOSE m \in mainContainer : TRUE, envVars)
         THEN "true"
         ELSE "replace"

\* The workload object as a read returns it.
ObjectRead ==
    [replicas |-> sts.replicas, resourceVersion |-> resourceVersion]

\* Mutant: the env submitted holds the requested variables only.
updatedStatefulSetRequestedOnly(w, currentEnvMap, envVars) ==
    [replicas |-> w.replicas,
     env |-> EnvArray(envVars),
     resourceVersion |-> w.resourceVersion]

\* The workload submitted: the object read ({...statefulSet, spec:
\* updatedSpec}, its metadata with the resourceVersion read included), the
\* env of its primary container replaced by the entries of
\* {...currentEnvMap, ...envVars}.
updatedStatefulSet(w, currentEnvMap, envVars) ==
    [replicas |-> w.replicas,
     env |-> EnvArray(Merge(currentEnvMap, envVars)),
     resourceVersion |-> w.resourceVersion]

\* Mutant: the replace is applied whatever version its object carries.
AnswerReplaceUnconditional(exists, version, f) ==
    IF f # NoFault THEN Err(f)
    ELSE IF ~exists THEN Err(HttpError(client, 404))
    ELSE Ok

\* The cluster's answer to the replace of the workload by an object: a
\* conflict when the object carries another resourceVersion than the
\* workload has.
AnswerReplace(exists, version, f) ==
    IF f # NoFault THEN Err(f)
    ELSE IF ~exists THEN Err(HttpError(client, 404))
    ELSE IF version # resourceVersion THEN Err(HttpError(client, 409))
    ELSE Ok

UpdateRead(p) ==
    /\ pc[p] = "update_read"
    /\ \E f \in FaultChoices(client) :
          /\ Inject(f)
          /\ LET c == Hit(call[p], f)
                 got == GotSts(f)
                 d == updateAfterRead(got, MainContainerEnv(sts, env), c.arg)
             IN CASE d = "throw" -> Decide(p, c, "thrown", Void, got.error)
                  [] d = "false" -> Decide(p, c, "ok", Bool(FALSE), NoError)
                  [] d = "true" -> Decide(p, c, "ok", Bool(TRUE), NoError)
                  [] d = "replace" ->
                        Goto(p, [c EXCEPT !.body =
                                    updatedStatefulSet(ObjectRead,
                                                       CurrentEnvMap(env),
                                                       c.arg)],
                             "update_replace")
    /\ UNCHANGED <<pureVars, client, env, pvc, clusterVars>>

\* replaceNamespacedStatefulSet with the object built, and the return or
\* rethrow after it.
UpdateReplace(p) ==
    /\ pc[p] = "update_replace"
    /\ \E f \in FaultChoices(client) :
          /\ Inject(f)
          /\ LET c == [Hit(call[p], f) EXCEPT
                          !.replaces = Append(@, call[p].body.env)]
                 ans == AnswerReplace(sts.exists, c.body.resourceVersion, f)
             IN IF ans.kind = "ok"
                THEN /\ sts' = [sts EXCEPT !.replicas = c.body.replicas]
                     /\ env' = c.body.env
                     /\ Decide(p, Wrote(c), "ok", Bool(TRUE), NoError)
                ELSE /\ UNCHANGED <<sts, env>>
                     /\ Decide(p, c, "thrown", Void, ans.error)
    /\ UNCHANGED <<pureVars, client, pvc, svc, ing>>

(***************************************************************************)
(* deleteSandbox: deleteStatefulSet, deleteService, deleteIngresses (its   *)
(* three deleteIngress under a Promise.all of their own) and deletePVCs    *)
(* run concurrently under Promise.all; every one of them issues its delete *)
(* request when deleteSandbox is entered.                                  *)
(***************************************************************************)
\* Mutant: a deletion answered not-found has failed.
deleteAfterStrict(ans) ==
    IF ans.kind = "ok" THEN "ok" ELSE "failed"

\* Mutant: a deletion swallows whatever its request is answered.
deleteAfterSwallows(ans) == "ok"

\* deleteStatefulSet, deleteService and deleteIngress, after their delete
\* request: not-found is logged as already deleted, any other error is
\* rethrown.
deleteAfter(ans) ==
    IF ans.kind = "ok" THEN "ok"
    ELSE IF isK8sNotFound(ans.error) THEN "ok"
    ELSE "failed"

\* Mutant: deletePVCs rethrows what its inner block rethrew.
deletePVCsRethrows(ans) ==
    IF ans.kind = "ok" THEN "ok"
    ELSE IF isK8sNotFound(ans.error) THEN "ok"
    ELSE "failed"

\* deletePVCs, after deleteNamespacedPersistentVolumeClaim: the inner
\* block rethrows what is not a not-found, the outer catch logs it and
\* does not throw.
deletePVCs(ans) ==
    LET inner == IF ans.kind = "ok" THEN "ok"
                 ELSE IF isK8sNotFound(ans.error) THEN "ok"
                 ELSE "failed"
    IN IF inner = "failed" THEN "ok" ELSE inner

\* Mutant: the promise waits for every task and is fulfilled whatever
\* the tasks ended with.
PromiseAllSettled(states) ==
    IF states \subseteq {"ok", "failed"} THEN "ok" ELSE "delete"

\* Promise.all over tasks in the given states: rejected as soon as one
\* task has failed, fulfilled when all are ok, pending ("delete")
\* otherwise.
PromiseAll(states) ==
    IF "failed" \in states THEN "failed"
    ELSE IF states \subseteq {"ok"} THEN "ok"
    ELSE "delete"

\* The promise of deleteIngresses.
deleteIngresses(dels) == PromiseAll({dels[r].st : r \in Routes})

\* The promise deleteSandbox awaits.
deleteSandboxAll(dels) ==
    PromiseAll({dels["sts"].st, dels["svc"].st, deleteIngresses(dels),
                dels["pvc"].st})

\* Whether the resource a deletion names exists.
Exists(t) ==
    CASE t = "sts" -> sts.exists
      [] t = "svc" -> svc
      [] t = "pvc" -> pvc
      [] OTHER -> ing[t]

\* A deletion has settled.  While deleteSandbox awaits, the first
\* rejection is thrown to its caller and the fulfilment of all lets it
\* return; a deletion that settles after the call has thrown changes
\* nothing for the caller.
DeleteSettles(p, c, t) ==
    IF pc[p] # "delete_wait"
    THEN /\ call' = [call EXCEPT ![p] = c]
         /\ UNCHANGED <<pc, last>>
    ELSE LET d == deleteSandboxAll(c.dels)
         IN CASE d = "failed" -> Decide(p, c, "thrown", Void, c.dels[t].error)
              [] d = "ok" -> Decide(p, c, "ok", Void, NoError)
              [] d = "delete" -> Goto(p, c, "delete_wait")

\* The cluster answers the delete request of resource t, and the
\* deletion settles.
DeleteRequest(p, t) ==
    /\ call[p].dels[t].st = "delete"
    /\ \E f \in FaultChoices(client) :
          /\ Inject(f)
          /\ LET ans == AnswerExisting(Exists(t), f)
                 st == IF t = "pvc" THEN deletePVCs(ans) ELSE deleteAfter(ans)
                 c == [Hit(call[p], f) EXCEPT
                          !.dels[t] = DelTask(st, IF ans.kind = "ok"
                                                  THEN NoError ELSE ans.error)]
                 gone == ans.kind = "ok"
             IN /\ sts' = IF gone /\ t = "sts" THEN NoSts ELSE sts
                /\ env' = IF gone /\ t = "sts" THEN NoEnv ELSE env
                /\ svc' = IF gone /\ t = "svc" THEN FALSE ELSE svc
                /\ pvc' = IF gone /\ t = "pvc" THEN FALSE ELSE pvc
                /\ ing' = IF gone /\ t \in Routes
                          THEN [ing EXCEPT ![t] = FALSE] ELSE ing
                /\ DeleteSettles(p, IF gone /\ t = "sts" THEN Wrote(c) ELSE c,
                                 t)
    /\ UNCHANGED <<pureVars, client>>

(***************************************************************************)
(* Specifications.  The cluster is found in any state: any subset of the   *)
(* sandbox's resources may exist, the workload with any declared replica   *)
(* count.  Spec lets the calls of two callers overlap on a cluster that    *)
(* answers every request according to its state; SpecSerial has a single   *)
(* caller, which begins a call only after the earlier one has completed,   *)
(* on a cluster that fails up to MaxFaults requests.                       *)
(***************************************************************************)
\* The sandbox the calls are made for: createSandbox(ProjectName,
\* namespace, ingressDomain, sandboxName, envVars) and the like.
Target(namespace, sandboxName, ingressDomain) ==
    [namespace |-> namespace, sandboxName |-> sandboxName,
     ingressDomain |-> ingressDomain, stored |-> {}, fault |-> NoFault]

NoInput == Target("ns1", SandboxName, IngressDomain)

\* The workloads a cluster may hold: none, or one with any declared
\* replica count.
InitWorkloads ==
    {NoSts} \cup {[exists |-> TRUE, replicas |-> n] : n \in Counters}

InitCluster ==
    /\ input = NoInput
    /\ output = NoOutput
    /\ client \in HttpShapes
    /\ sts \in InitWorkloads
    /\ svc \in BOOLEAN
    /\ ing \in [Routes -> BOOLEAN]
    /\ env = IF sts.exists
             THEN EnvArray(containerEnv(DefaultEnvVars, ProjectName))
             ELSE NoEnv
    /\ pvc \in BOOLEAN
    /\ pc = [p \in Procs |-> "idle"]
    /\ call = [p \in Procs |-> NoCall]
    /\ last = NoSummary

Init == InitCluster /\ faults = 0

InitSerial == InitCluster /\ faults = MaxFaults

Step(p) ==
    \/ StopRead(p)
    \/ StopPatch(p)
    \/ StartRead(p)
    \/ StartPatch(p)
    \/ CreateStsRead(p)
    \/ CreateStsCreate(p)
    \/ CreateSvcRead(p)
    \/ CreateSvcCreate(p)
    \/ \E r \in Routes : IngressRead(p, r)
    \/ \E r \in Routes : IngressCreate(p, r)

Next == \E p \in Procs : BeginCall(p) \/ Step(p)

Spec == Init /\ [][Next]_vars

NextSerial == \E p \in Procs : BeginSerial(p) \/ Step(p)

SpecSerial == InitSerial /\ [][NextSerial]_vars

(***************************************************************************)
(* Specification SpecDelete: a single caller calls deleteSandbox, each     *)
(* call after the one before has completed and its requests have been      *)
(* answered, on a cluster that holds any subset of the sandbox's six       *)
(* resources and fails up to MaxFaults requests.                           *)
(***************************************************************************)
BeginDelete(p) ==
    /\ p = 1
    /\ Quiescent
    /\ call[p].n < MaxCalls
    /\ BeginOf(p, {"delete"}, {NoEnv})

NextDelete ==
    \E p \in Procs :
       BeginDelete(p) \/ \E t \in DeleteTargets : DeleteRequest(p, t)

SpecDelete == InitSerial /\ [][NextDelete]_vars

(***************************************************************************)
(* Specification SpecInfo: one createSandbox call, for any namespace,      *)
(* sandbox name and ingress domain, with envVars that carry no             *)
(* TTYD_ACCESS_TOKEN, an empty one or a token, on a cluster that holds any *)
(* subset of the sandbox's resources and fails no request.                 *)
(***************************************************************************)
CreateEnvVars ==
    {NoEnv, EnvMap({"NODE_ENV"}, "production")}
        \cup {EnvMap({"TTYD_ACCESS_TOKEN"}, t) : t \in Tokens \cup {""}}

InitInfo ==
    /\ input \in {Target(ns, S, D) : ns \in Namespaces, S \in SandboxNames,
                                     D \in IngressDomains}
    /\ output = NoOutput
    /\ client \in HttpShapes
    /\ sts \in {NoSts, NewSts}
    /\ svc \in BOOLEAN
    /\ ing \in [Routes -> BOOLEAN]
    /\ env = IF sts.exists
             THEN EnvArray(containerEnv(DefaultEnvVars, ProjectName))
             ELSE NoEnv
    /\ pvc \in BOOLEAN
    /\ faults = 0
    /\ pc = [p \in Procs |-> "idle"]
    /\ call = [p \in Procs |-> NoCall]
    /\ last = NoSummary

BeginCreate(p) ==
    /\ p = 1
    /\ call[p].n = 0
    /\ BeginOf(p, {"create"}, CreateEnvVars)

CreateStep(p) ==
    \/ CreateStsRead(p)
    \/ CreateStsCreate(p)
    \/ CreateSvcRead(p)
    \/ CreateSvcCreate(p)
    \/ \E r \in Routes : IngressRead(p, r)
    \/ \E r \in Routes : IngressCreate(p, r)

NextInfo == \E p \in Procs : BeginCreate(p) \/ CreateStep(p)

SpecInfo == InitInfo /\ [][NextInfo]_vars

(***************************************************************************)
(* Specification SpecUpdate: a single caller calls                         *)
(* updateStatefulSetEnvVars, each call after the one before has returned,  *)
(* with any map over UpdateKeys, on a cluster whose workload, if it        *)
(* exists, was created with any such map, and which fails up to MaxFaults  *)
(* requests.                                                               *)
(***************************************************************************)
UpdateKeys == {"NODE_ENV", "DATABASE_URL"}
UpdateValues == {"v1", "v2"}

UpdateEnvVars ==
    UNION {[keys -> UpdateValues] : keys \in SUBSET UpdateKeys}

\* An env array with one more entry, which has no literal value.
WithReference(envArray, name) ==
    [k \in DOMAIN envArray \cup {name} |->
        IF k = name THEN {} ELSE envArray[k]]

\* The env arrays the primary container of a workload found in the
\* cluster may have: what createStatefulSet built from any map, and the
\* same with an entry API_KEY that refers to a secret.
InitEnvArrays ==
    LET built == {EnvArray(containerEnv(m, ProjectName)) : m \in UpdateEnvVars}
    IN built \cup {WithReference(a, "API_KEY") : a \in built}

InitUpdate ==
    /\ input = NoInput
    /\ output = NoOutput
    /\ client \in HttpShapes
    /\ sts \in {NoSts, NewSts}
    /\ svc \in BOOLEAN
    /\ ing \in {[r \in Routes |-> b] : b \in BOOLEAN}
    /\ env \in IF sts.exists THEN InitEnvArrays ELSE {NoEnv}
    /\ pvc \in BOOLEAN
    /\ faults = MaxFaults
    /\ pc = [p \in Procs |-> "idle"]
    /\ call = [p \in Procs |-> NoCall]
    /\ last = NoSummary

BeginUpdate(p) ==
    /\ p = 1
    /\ Quiescent
    /\ call[p].n < MaxCalls
    /\ BeginOf(p, {"update"}, UpdateEnvVars)

NextUpdate ==
    \E p \in Procs : BeginUpdate(p) \/ UpdateRead(p) \/ UpdateReplace(p)

SpecUpdate == InitUpdate /\ [][NextUpdate]_vars

(***************************************************************************)
(* Specification SpecMutate: a single caller calls stopSandbox,            *)
(* startSandbox and updateStatefulSetEnvVars, each call after the one      *)
(* before has returned, on a cluster that fails up to MaxFaults requests.  *)
(***************************************************************************)
MutateEnvVars ==
    {NoEnv, DefaultEnvVars} \cup {EnvMap({"NODE_ENV"}, v) : v \in UpdateValues}

InitMutate ==
    /\ input = NoInput
    /\ output = NoOutput
    /\ client \in HttpShapes
    /\ sts \in InitWorkloads
    /\ svc \in BOOLEAN
    /\ ing \in {[r \in Routes |-> b] : b \in BOOLEAN}
    /\ env \in IF sts.exists
               THEN {EnvArray(containerEnv(DefaultEnvVars, ProjectName))}
               ELSE {NoEnv}
    /\ pvc \in BOOLEAN
    /\ faults = MaxFaults
    /\ pc = [p \in Procs |-> "idle"]
    /\ call = [p \in Procs |-> NoCall]
    /\ last = NoSummary

BeginMutate(p) ==
    /\ p = 1
    /\ Quiescent
    /\ call[p].n < MaxCalls
    /\ \/ BeginOf(p, {"stop", "start"}, {NoEnv})
       \/ BeginOf(p, {"update"}, MutateEnvVars)

MutateStep(p) ==
    \/ StopRead(p)
    \/ StopPatch(p)
    \/ StartRead(p)
    \/ StartPatch(p)
    \/ UpdateRead(p)
    \/ UpdateReplace(p)

NextMutate == \E p \in Procs : BeginMutate(p) \/ MutateStep(p)

SpecMutate == InitMutate /\ [][NextMutate]_vars

(***************************************************************************)
(* Specification SpecAll: from a cluster without the workload, two callers *)
(* call createSandbox, stopSandbox, startSandbox, updateStatefulSetEnvVars *)
(* and deleteSandbox in any order; the calls of the one overlap those of   *)
(* the other.  The first caller makes up to MaxCalls calls, the second     *)
(* one; the cluster fails no request.                                      *)
(***************************************************************************)
InitAll ==
    /\ input = NoInput
    /\ output = NoOutput
    /\ client \in HttpShapes
    /\ sts = NoSts
    /\ svc = FALSE
    /\ ing = [r \in Routes |-> FALSE]
    /\ env = NoEnv
    /\ pvc = FALSE
    /\ faults = 0
    /\ pc = [p \in Procs |-> "idle"]
    /\ call = [p \in Procs |-> NoCall]
    /\ last = NoSummary

\* A caller begins an operation; what the cluster was at the begin and
\* which call came before is not recorded.
BeginUnrecorded(p, ops, args) ==
    /\ pc[p] \in {"idle", "done"}
    /\ TasksSettled(p)
    /\ \E op \in ops, arg \in args :
          LET c == [NewCall(op, arg, call[p].n + 1, NoCall.pre, NoSummary)
                    EXCEPT !.writes = call[p].writes]
          IN /\ pc' = [pc EXCEPT ![p] = FirstPos(op)]
             /\ call' = [call EXCEPT ![p] =
                           IF op = "delete" THEN EnterDelete(c) ELSE c]
    /\ UNCHANGED <<pureVars, client, env, pvc, clusterVars, faults, last>>

BeginAny(p) ==
    /\ call[p].n < (IF p = 1 THEN MaxCalls ELSE 1)
    /\ \/ BeginUnrecorded(p, {"create"}, {DefaultEnvVars})
       \/ BeginUnrecorded(p, {"stop", "start", "delete"}, {NoEnv})
       \/ BeginUnrecorded(p, {"update"}, {EnvMap({"NODE_ENV"}, "v1")})

AnyStep(p) ==
    \/ CreateStep(p)
    \/ MutateStep(p)
    \/ \E t \in DeleteTargets : DeleteRequest(p, t)

NextAll == \E p \in Procs : BeginAny(p) \/ AnyStep(p)

SpecAll == InitAll /\ [][NextAll]_vars

(***************************************************************************)
(* Claims on stopSandbox, startSandbox and createSandbox.                  *)
(***************************************************************************)
Done(p) == pc[p] = "done"

AllFive(w, s, i) == w.exists /\ s /\ \A r \in Routes : i[r]

\* C5: stopSandbox and startSandbox are idempotent: during and after a
\* stop that directly follows a stop that returned (likewise a start after
\* a start), the cluster is as the first call left it and no patch is
\* issued.
C5_ScaleIdempotent ==
    \A p \in Procs :
       (/\ call[p].op \in {"stop", "start"}
        /\ call[p].prev.op = call[p].op
        /\ call[p].prev.outcome = "ok") =>
          /\ call[p].patches = <<>>
          /\ Cluster = call[p].pre

\* A second stop has returned after a first stop that patched a running
\* workload.
C5_Witness ==
    /\ Done(1)
    /\ call[1].op = "stop"
    /\ call[1].outcome = "ok"
    /\ call[1].prev.op = "stop"
    /\ call[1].prev.outcome = "ok"
    /\ call[1].prev.patches = <<StopReplicas>>
    /\ sts.exists

\* C6: a stopSandbox call issues no write when the workload is absent or
\* its declared replica count is already 0, and then returns normally
\* unless its read failed; otherwise, unless a request of it failed, it
\* issues exactly one patch, of the declared replica count to 0, returns,
\* and the declared count is 0 with everything else as before.
C6_StopPatchesOnlyRunning ==
    \A p \in Procs :
       (Done(p) /\ call[p].op = "stop") =>
          LET w == call[p].pre[1]
          IN /\ call[p].creates = {}
             /\ IF ~w.exists \/ w.replicas = 0
                THEN /\ call[p].patches = <<>>
                     /\ Cluster = call[p].pre
                     /\ call[p].hit = 0 => call[p].outcome = "ok"
                ELSE call[p].hit = 0 =>
                        /\ call[p].patches = <<0>>
                        /\ call[p].outcome = "ok"
                        /\ sts = [w EXCEPT !.replicas = 0]
                        /\ <<svc, ing>> = <<call[p].pre[2], call[p].pre[3]>>

\* A stop of a workload with two declared replicas has patched and
\* returned.
C6_Witness ==
    /\ Done(1)
    /\ call[1].op = "stop"
    /\ call[1].pre[1] = [exists |-> TRUE, replicas |-> 2]
    /\ call[1].patches = <<0>>
    /\ call[1].outcome = "ok"
    /\ sts.replicas = 0

\* C7: a startSandbox call issues no write when the workload is absent (it
\* creates none) or its declared replica count is 1 or more, and then
\* returns normally unless its read failed; otherwise, unless a request of
\* it failed, it issues exactly one patch, of the declared replica count
\* to 1, and returns.
C7_StartPatchesOnlyStopped ==
    \A p \in Procs :
       (Done(p) /\ call[p].op = "start") =>
          LET w == call[p].pre[1]
          IN /\ call[p].creates = {}
             /\ IF ~w.exists \/ w.replicas >= 1
                THEN /\ call[p].patches = <<>>
                     /\ Cluster = call[p].pre
                     /\ call[p].hit = 0 => call[p].outcome = "ok"
                ELSE call[p].hit = 0 =>
                        /\ call[p].patches = <<1>>
                        /\ call[p].outcome = "ok"
                        /\ sts = [w EXCEPT !.replicas = 1]
                        /\ <<svc, ing>> = <<call[p].pre[2], call[p].pre[3]>>

\* A start of a stopped workload has patched it to one replica and
\* returned.
C7_Witness ==
    /\ Done(1)
    /\ call[1].op = "start"
    /\ call[1].outcome = "ok"
    /\ call[1].pre[1] = [exists |-> TRUE, replicas |-> 0]
    /\ call[1].patches = <<1>>
    /\ sts.replicas = 1

\* C8: createSandbox is idempotent: a call begun with the workload, the
\* service and the three routes present, none of whose requests fails,
\* issues no create request, returns the SandboxInfo and leaves the cluster
\* as it was; a create directly after a create that returned leaves the
\* cluster as the first left it and returns the same SandboxInfo.
C8_CreateIdempotent ==
    \A p \in Procs :
       (Done(p) /\ call[p].op = "create" /\ call[p].hit = 0) =>
          /\ AllFive(call[p].pre[1], call[p].pre[2], call[p].pre[3]) =>
                /\ call[p].creates = {}
                /\ call[p].outcome = "ok"
                /\ call[p].ret.kind = "SandboxInfo"
                /\ call[p].ret.statefulSetName = SandboxName
                /\ Cluster = call[p].pre
          /\ (call[p].prev.op = "create" /\ call[p].prev.outcome = "ok") =>
                /\ call[p].creates = {}
                /\ call[p].outcome = "ok"
                /\ call[p].ret = call[p].prev.ret
                /\ Cluster = call[p].pre

\* A second create has returned after a first create that found no
\* workload and returned.
C8_Witness ==
    /\ Done(1)
    /\ call[1].op = "create"
    /\ call[1].outcome = "ok"
    /\ call[1].hit = 0
    /\ call[1].prev.op = "create"
    /\ call[1].prev.outcome = "ok"
    /\ call[1].n = 2
    /\ faults = MaxFaults
    /\ call[1].ret.serviceName = "acme-x1-service"

\* C9: a conflict (409, already exists) answer to a create request of
\* createSandbox is treated as success: no createSandbox call throws it.
C9_ConflictIsSuccess ==
    \A p \in Procs :
       ~(/\ call[p].op = "create"
         /\ call[p].outcome = "thrown"
         /\ call[p].error.status = 409)

\* C10: when two overlapping createSandbox calls for the same sandbox have
\* both completed, on a cluster that failed no request, both have returned
\* a SandboxInfo and each of the five resources exists.
C10_ConcurrentCreatesSafe ==
    (\A p \in Procs : Done(p) /\ call[p].op = "create" /\ TasksSettled(p)) =>
        /\ \A p \in Procs : /\ call[p].outcome = "ok"
                            /\ call[p].ret.kind = "SandboxInfo"
        /\ AllFive(sts, svc, ing)

(***************************************************************************)
(* Claims on createSandbox from a partly existing sandbox and on its       *)
(* failures.                                                               *)
(***************************************************************************)
\* C11: createSandbox tolerates partial prior state: whatever subset of
\* the workload, the service and the three routes existed when the call
\* began, once the call has returned without throwing all five exist.
C11_CreateCompletesPartial ==
    \A p \in Procs :
       (Done(p) /\ call[p].op = "create" /\ call[p].outcome = "ok") =>
          AllFive(sts, svc, ing)

\* A create begun with only the service and the terminal route present
\* has created the workload and the two other routes, and returned.
C11_Witness ==
    /\ Done(1)
    /\ call[1].op = "create"
    /\ call[1].outcome = "ok"
    /\ ~call[1].pre[1].exists
    /\ call[1].pre[2]
    /\ call[1].pre[3] = [r \in Routes |-> r = "ttyd"]
    /\ call[1].creates = {"sts", "app", "filebrowser"}
    /\ AllFive(sts, svc, ing)

\* C12: createSandbox is atomic for its caller: once a call has completed
\* and no request of it is in flight, either all five resources exist or
\* the existing resources are those that existed when the call began (a
\* call that throws leaves nothing of what it created).
C12_CreateAtomic ==
    \A p \in Procs :
       (Done(p) /\ call[p].op = "create" /\ TasksSettled(p)) =>
          \/ AllFive(sts, svc, ing)
          \/ /\ sts.exists = call[p].pre[1].exists
             /\ svc = call[p].pre[2]
             /\ ing = call[p].pre[3]

\* base64 of user:<token>, for the tokens of the callers.
ExpectedAuthorization(token) ==
    CASE token = "tok-1" -> "dXNlcjp0b2stMQ=="
      [] token = "s3cret" -> "dXNlcjpzM2NyZXQ="
      [] token = "a" -> "dXNlcjph"

\* C13: for every sandbox name S, ingress domain D and envVars, a
\* createSandbox call that returns, whether it created the resources or
\* found them, returns statefulSetName S, serviceName S-service, publicUrl
\* https://S-app.D, fileBrowserUrl https://S-filebrowser.D and ttydUrl
\* https://S-ttyd.D, followed by ?authorization=<base64 of user:token>
\* exactly when envVars carries a non-empty TTYD_ACCESS_TOKEN.
C13_SandboxInfoUrls ==
    \A p \in Procs :
       (Done(p) /\ call[p].op = "create" /\ call[p].outcome = "ok") =>
          LET S == input.sandboxName
              D == input.ingressDomain
              token == MapGet(call[p].arg, "TTYD_ACCESS_TOKEN")
          IN call[p].ret =
               [kind |-> "SandboxInfo",
                statefulSetName |-> S,
                serviceName |-> S \o "-service",
                publicUrl |-> "https://" \o S \o "-app." \o D,
                fileBrowserUrl |-> "https://" \o S \o "-filebrowser." \o D,
                ttydUrl |->
                   IF token \in {{t} : t \in Tokens}
                   THEN "https://" \o S \o "-ttyd." \o D \o "?authorization="
                           \o ExpectedAuthorization(CHOOSE t \in token : TRUE)
                   ELSE "https://" \o S \o "-ttyd." \o D]

\* A create of acme-x2 under cn.example.dev with the token s3cret, which
\* found all five resources and created none, has returned the terminal
\* URL with the authorization query.
C13_Witness ==
    /\ Done(1)
    /\ call[1].op = "create"
    /\ call[1].outcome = "ok"
    /\ call[1].creates = {}
    /\ input.sandboxName = "acme-x2"
    /\ call[1].arg = EnvMap({"TTYD_ACCESS_TOKEN"}, "s3cret")
    /\ call[1].ret.ttydUrl =
          "https://acme-x2-ttyd.cn.example.dev?authorization=dXNlcjpzM2NyZXQ="
    /\ call[1].ret.publicUrl = "https://acme-x2-app.cn.example.dev"

\* C14: createSandbox rethrows every failure of an existence check or of
\* a create request that is neither not-found (check) nor conflict
\* (create), in whatever shape the error comes: a call one of whose
\* requests failed so has thrown when it completes, and it issues no
\* create request for a resource whose existence check failed so.
C14_CreateFailsLoud ==
    \A p \in Procs :
       call[p].op = "create" =>
          /\ call[p].checks \cap call[p].creates = {}
          /\ (Done(p) /\ call[p].hit > 0) => call[p].outcome = "thrown"

(***************************************************************************)
(* Claims on deleteSandbox.                                                *)
(***************************************************************************)
NoneOfFive == ~sts.exists /\ ~svc /\ \A r \in Routes : ~ing[r]

Deleting(p) == call[p].op = "delete"

\* C15: after a deleteSandbox call has returned without throwing (no
\* create running beside it), none of the workload, the service and the
\* three routes exists, and the deletion of the storage claim has been
\* attempted.
C15_DeleteRemovesAll ==
    \A p \in Procs :
       (Done(p) /\ Deleting(p) /\ call[p].outcome = "ok") =>
          /\ NoneOfFive
          /\ call[p].dels["pvc"].st = "ok"

\* A delete of a sandbox with all six resources has returned although the
\* deletion of its storage claim was answered 500: the claim is left, the
\* five other resources are gone.
C15_Witness ==
    /\ Done(1)
    /\ Deleting(1)
    /\ call[1].outcome = "ok"
    /\ AllFive(call[1].pre[1], call[1].pre[2], call[1].pre[3])
    /\ call[1].pre[4]
    /\ call[1].dels["pvc"].error.status = 500
    /\ pvc
    /\ NoneOfFive

\* C16: deleteSandbox takes not-found on every sub-resource as success:
\* whatever subset of the six resources is absent, a call none of whose
\* requests fails otherwise returns without throwing; and during and
\* after such a call that directly follows a deleteSandbox that returned,
\* the cluster is as it was when the call began.
C16_DeleteIdempotent ==
    \A p \in Procs :
       (Deleting(p) /\ call[p].hit = 0) =>
          /\ Done(p) => call[p].outcome = "ok"
          /\ (call[p].prev.op = "delete" /\ call[p].prev.outcome = "ok") =>
                Cluster = call[p].pre

\* C16, amended: as C16, but the second deleteSandbox leaves unchanged
\* (absent) the workload, the service and the routes only; the storage
\* claim, which the first call leaves in place when its deletion failed,
\* is deleted by the second: it exists after the call begins only if it
\* existed before, and no longer once the call has returned.
C16_DeleteIdempotentButClaim ==
    \A p \in Procs :
       (Deleting(p) /\ call[p].hit = 0) =>
          /\ Done(p) => call[p].outcome = "ok"
          /\ (call[p].prev.op = "delete" /\ call[p].prev.outcome = "ok") =>
                /\ <<sts, svc, ing, env>> = <<call[p].pre[1], call[p].pre[2],
                                              call[p].pre[3], call[p].pre[5]>>
                /\ NoneOfFive
                /\ pvc => call[p].pre[4]
                /\ Done(p) => ~pvc

\* A second delete has returned after a first delete that returned and
\* left the storage claim: all six were absent or answered not-found but
\* the claim, which it deleted.
C16_Witness ==
    /\ Done(1)
    /\ Deleting(1)
    /\ call[1].n = 2
    /\ call[1].hit = 0
    /\ call[1].outcome = "ok"
    /\ call[1].prev.op = "delete"
    /\ call[1].prev.outcome = "ok"
    /\ call[1].pre[4]
    /\ ~pvc
    /\ call[1].dels["sts"].error.status = 404
    /\ call[1].dels["app"].error.status = 404

\* C17: when the deletion of the storage claim fails with any error, a
\* not-found or another, and the five other deletions succeed,
\* deleteSandbox returns without throwing.
C17_ClaimFailureSwallowed ==
    \A p \in Procs :
       (/\ Done(p) /\ Deleting(p) /\ TasksSettled(p)
        /\ call[p].dels["pvc"].error # NoError
        /\ \A t \in DeleteTargets \ {"pvc"} : call[p].dels[t].st = "ok") =>
          call[p].outcome = "ok"

\* A delete whose storage-claim deletion failed with a network error,
\* the claim existing, and whose other deletions removed their
\* resources, has returned.
C17_Witness ==
    /\ Done(1)
    /\ Deleting(1)
    /\ call[1].dels["pvc"].error = PlainError
    /\ call[1].pre[4]
    /\ pvc
    /\ AllFive(call[1].pre[1], call[1].pre[2], call[1].pre[3])
    /\ \A t \in DeleteTargets \ {"pvc"} : call[1].dels[t].error = NoError
    /\ call[1].outcome = "ok"

\* C18: the deletions of deleteSandbox are independent: every one of the
\* six is issued; when the call has completed and all have been answered,
\* a deletion of the workload, the service or a route that failed with
\* another error than not-found has made the call throw the error of such
\* a deletion, and every deletion whose request succeeded has removed its
\* resource.
C18_DeletionsIndependent ==
    \A p \in Procs :
       Deleting(p) =>
          /\ \A t \in DeleteTargets : call[p].dels[t].st # "idle"
          /\ (Done(p) /\ TasksSettled(p)) =>
                /\ (\E t \in DeleteTargets : call[p].dels[t].st = "failed") =>
                      /\ call[p].outcome = "thrown"
                      /\ \E t \in DeleteTargets \ {"pvc"} :
                            /\ call[p].dels[t].st = "failed"
                            /\ call[p].dels[t].error.status # 404
                            /\ call[p].error = call[p].dels[t].error
                /\ \A t \in DeleteTargets :
                      (/\ call[p].dels[t].st = "ok"
                       /\ call[p].dels[t].error = NoError) => ~Exists(t)

\* A delete of a sandbox with all six resources, whose service deletion
\* was answered 500, has thrown that error; the five other deletions
\* have removed their resources, the service is left.
C18_Witness ==
    /\ Done(1)
    /\ Deleting(1)
    /\ TasksSettled(1)
    /\ AllFive(call[1].pre[1], call[1].pre[2], call[1].pre[3])
    /\ call[1].pre[4]
    /\ call[1].outcome = "thrown"
    /\ call[1].error.status = 500
    /\ call[1].dels["svc"].st = "failed"
    /\ svc
    /\ ~sts.exists /\ ~pvc /\ \A r \in Routes : ~ing[r]

\* C19: deleteSandbox awaits all the deletions it issued: when the call
\* has returned to its caller, by resolving or by throwing, every
\* deletion has been answered.
C19_DeleteAwaitsAll ==
    \A p \in Procs :
       (Done(p) /\ Deleting(p)) =>
          \A t \in DeleteTargets : call[p].dels[t].st \in {"ok", "failed"}

(***************************************************************************)
(* Claims on updateStatefulSetEnvVars.                                     *)
(***************************************************************************)
\* C20: updateSandboxEnvVars called twice in sequence with the same map
\* on an existing workload: the first call, having returned, returned
\* true; the second issues no replace request, and returns true and
\* leaves the cluster as it was unless its read fails.
C20_UpdateTwice ==
    \A p \in Procs :
       (/\ call[p].op = "update"
        /\ call[p].prev.op = "update"
        /\ call[p].prev.outcome = "ok"
        /\ call[p].prev.arg = call[p].arg
        /\ call[p].pre[1].exists) =>
          /\ call[p].prev.ret = Bool(TRUE)
          /\ call[p].replaces = <<>>
          /\ Cluster = call[p].pre
          /\ (Done(p) /\ call[p].hit = 0) =>
                /\ call[p].outcome = "ok"
                /\ call[p].ret = Bool(TRUE)

\* A second update with NODE_ENV=v2 and DATABASE_URL=v1 has returned true
\* without a replace, after a first update with the same map that
\* replaced the workload.
C20_Witness ==
    /\ Done(1)
    /\ call[1].op = "update"
    /\ call[1].n = 2
    /\ call[1].arg = [NODE_ENV |-> "v2", DATABASE_URL |-> "v1"]
    /\ call[1].prev.op = "update"
    /\ call[1].prev.arg = call[1].arg
    /\ call[1].prev.ret = Bool(TRUE)
    /\ Len(call[1].prev.replaces) = 1
    /\ call[1].replaces = <<>>
    /\ call[1].ret = Bool(TRUE)
    /\ env = EnvArray([NODE_ENV |-> "v2", DATABASE_URL |-> "v1",
                       PROJECT_NAME |-> "acme"])

\* C21: updateSandboxEnvVars is merge-only: once a call on a workload has
\* returned true (no request of another call in between), every name
\* that was in the primary container's environment before the call and is
\* not a key of the request map is still there with the entry it had,
\* and every requested key has the requested value.
C21_UpdateMergeOnly ==
    \A p \in Procs :
       (/\ Done(p) /\ call[p].op = "update"
        /\ call[p].outcome = "ok" /\ call[p].ret = Bool(TRUE)) =>
          LET before == call[p].pre[5]
          IN /\ \A k \in DOMAIN before \ DOMAIN call[p].arg :
                   k \in DOMAIN env /\ env[k] = before[k]
             /\ \A k \in DOMAIN call[p].arg :
                   k \in DOMAIN env /\ env[k] = {call[p].arg[k]}

\* C22: updateStatefulSetEnvVars on a sandbox whose workload does not
\* exist issues no write, and when its read is answered (not-found) it
\* returns false without throwing and leaves the cluster as it was.
C22_UpdateAbsentNotApplied ==
    \A p \in Procs :
       (call[p].op = "update" /\ ~call[p].pre[1].exists) =>
          /\ call[p].replaces = <<>>
          /\ Cluster = call[p].pre
          /\ (Done(p) /\ call[p].hit = 0) =>
                /\ call[p].outcome = "ok"
                /\ call[p].ret = Bool(FALSE)

\* An update with NODE_ENV=v1 of a sandbox without workload, its read
\* answered 404 carried as error.code, has returned false.
C22_Witness ==
    /\ Done(1)
    /\ call[1].op = "update"
    /\ call[1].n = 1
    /\ call[1].arg = [NODE_ENV |-> "v1"]
    /\ ~call[1].pre[1].exists
    /\ client = "code"
    /\ call[1].hit = 0
    /\ call[1].ret = Bool(FALSE)
    /\ ~sts.exists

(***************************************************************************)
(* Claims on the operations that change an existing workload.              *)
(***************************************************************************)
Mutating(p) == call[p].op \in {"stop", "start", "update"}

\* C23: stopSandbox, startSandbox and updateStatefulSetEnvVars fail loud:
\* a call whose read or write failed (with another answer than not-found
\* on the read) has thrown that failure when it completes, and a call
\* that has thrown has left the workload as it was.
C23_MutationsFailLoud ==
    \A p \in Procs :
       (Done(p) /\ Mutating(p)) =>
          /\ call[p].hit > 0 =>
                /\ call[p].outcome = "thrown"
                /\ call[p].error \in Faults(client)
          /\ call[p].outcome = "thrown" =>
                /\ sts = call[p].pre[1]
                /\ env = call[p].pre[5]

\* An update of a running workload whose replace request failed with a
\* network error has thrown it, and the workload has the environment it
\* had.
C23_Witness ==
    /\ Done(1)
    /\ call[1].op = "update"
    /\ call[1].arg = [NODE_ENV |-> "v2"]
    /\ Len(call[1].replaces) = 1
    /\ call[1].outcome = "thrown"
    /\ call[1].error = PlainError
    /\ sts = [exists |-> TRUE, replicas |-> 1]
    /\ env = EnvArray(containerEnv(DefaultEnvVars, ProjectName))

\* C24: in every state reached from a cluster without the workload by
\* createSandbox, stopSandbox, startSandbox, updateStatefulSetEnvVars and
\* deleteSandbox calls, in sequence or overlapping, the declared replica
\* count of an existing workload is 0 or 1.
C24_ReplicasZeroOrOne == sts.exists => sts.replicas \in {0, 1}

\* A workload created by one caller and stopped by a later call of it was
\* read running by an overlapping update, whose replace of the object read
\* was refused as a conflict: the declared count is the stop's 0.
C24_Witness ==
    /\ call[1].op = "stop"
    /\ call[1].n = 2
    /\ call[1].patches = <<0>>
    /\ call[2].op = "update"
    /\ Len(call[2].replaces) = 1
    /\ Done(1) /\ Done(2)
    /\ call[2].outcome = "thrown"
    /\ call[2].error.status = 409
    /\ sts.exists
    /\ sts.replicas = 0

\* The overlapping calls of the two callers are a stopSandbox and a
\* startSandbox of a workload that existed when the first of them began.
StopStartRace ==
    /\ {call[1].op, call[2].op} = {"stop", "start"}
    /\ call[1].pre[1].exists

\* The caller whose call is not the one that completed last.
Other(p) == CHOOSE q \in Procs : q # p

\* C25: a stopSandbox and a startSandbox that overlap on an existing
\* workload do not fail because of each other: each of them that has
\* completed has returned normally after at most one patch, and once both
\* have returned the declared replica count is the value of the patch that
\* reached the cluster last, or the initial count when neither patched.
C25_StopStartRace ==
    StopStartRace =>
       /\ \A p \in Procs :
             /\ Len(call[p].patches) <= 1
             /\ Done(p) => call[p].outcome = "ok"
       /\ (Done(1) /\ Done(2)) =>
             LET p == CHOOSE q \in Procs : call[q].op = last.op
             IN sts.replicas =
                   IF call[p].patches # <<>> THEN call[p].patches[1]
                   ELSE IF call[Other(p)].patches # <<>>
                        THEN call[Other(p)].patches[1]
                        ELSE call[1].pre[1].replicas

\* A stop and a start began on a running workload before either wrote; the
\* stop patched first, the start read the stopped workload and patched
\* last, and the declared count is the start's 1.
C25_Witness ==
    /\ StopStartRace
    /\ Done(1) /\ Done(2)
    /\ call[1].pre = call[2].pre
    /\ call[1].pre[1].replicas = 1
    /\ call[1].patches # <<>>
    /\ call[2].patches # <<>>
    /\ last.op = "start"
    /\ sts.replicas = StartReplicas

\* What stopSandbox and startSandbox are to leave alone: whether the
\* workload exists, the service, the routes, the storage claim and the
\* primary container's environment.
ScaleFrame(w, s, i, c, e) == <<w.exists, s, i, c, e>>

\* C26: stopSandbox and startSandbox change nothing but the declared
\* replica count: during and after such a call of a caller whose calls do
\* not overlap, the service, the three routes, the storage claim and the
\* primary container's environment are as they were when the call began,
\* so that the storage claim outlives a stop followed by a start.
C26_ScaleFrame ==
    \A p \in Procs :
       call[p].op \in {"stop", "start"} =>
          ScaleFrame(sts, svc, ing, pvc, env) =
             ScaleFrame(call[p].pre[1], call[p].pre[2], call[p].pre[3],
                        call[p].pre[4], call[p].pre[5])

\* A start that patched has returned after a stop that patched a running
\* workload with a storage claim, and the claim is still there.
C26_Witness ==
    /\ Done(1)
    /\ call[1].op = "start"
    /\ call[1].patches = <<StartReplicas>>
    /\ call[1].outcome = "ok"
    /\ call[1].prev.op = "stop"
    /\ call[1].prev.patches = <<StopReplicas>>
    /\ call[1].pre[4]
    /\ pvc
    /\ sts.replicas = StartReplicas

(***************************************************************************)
(* Remote exec bridge: execCommandInBackground, isPortListening,           *)
(* killProcessOnPort and getSandboxCurrentDirectory.  Each runs a script   *)
(* in pod S-0 over an exec channel of the cluster client and collects the  *)
(* script's standard output and error while it awaits the channel's        *)
(* status.  Text is a sequence of lexemes: a blank, a line end, a digit, a *)
(* sign, a word, a JSON punctuation mark or a quoted JSON string.          *)
(***************************************************************************)
MaxChunks == 2          \* data events of standard output in one exec

Whitespace == {" ", "\n"}
DigitLexemes == {"0", "1", "2", "4"}

DigitValue(d) ==
    CASE d = "0" -> 0
      [] d = "1" -> 1
      [] d = "2" -> 2
      [] d = "4" -> 4

\* String.prototype.trim.
RECURSIVE trimStart(_)
trimStart(text) ==
    IF text # <<>> /\ Head(text) \in Whitespace
    THEN trimStart(Tail(text))
    ELSE text

RECURSIVE trimEnd(_)
trimEnd(text) ==
    IF text # <<>> /\ text[Len(text)] \in Whitespace
    THEN trimEnd(SubSeq(text, 1, Len(text) - 1))
    ELSE text

trim(text) == trimEnd(trimStart(text))

\* The longest prefix of digits.
RECURSIVE LeadingDigits(_)
LeadingDigits(text) ==
    IF text # <<>> /\ Head(text) \in DigitLexemes
    THEN <<Head(text)>> \o LeadingDigits(Tail(text))
    ELSE <<>>

RECURSIVE DecimalValue(_, _)
DecimalValue(digits, acc) ==
    IF digits = <<>> THEN acc
    ELSE DecimalValue(Tail(digits), 10 * acc + DigitValue(Head(digits)))

\* parseInt(text, 10): leading blanks and one sign are skipped, the digits
\* that follow are the number and whatever follows them is ignored; NaN
\* (no value) when no digit is there.
parseInt(text) ==
    LET t == trimStart(text)
        signed == t # <<>> /\ Head(t) \in {"-", "+"}
        digits == LeadingDigits(IF signed THEN Tail(t) ELSE t)
        n == DecimalValue(digits, 0)
    IN IF digits = <<>> THEN {}
       ELSE {IF signed /\ Head(t) = "-" THEN 0 - n ELSE n}

\* String.prototype.startsWith('killed').
startsWithKilled(text) == text # <<>> /\ Head(text) = "killed"

\* The quoted strings of the JSON texts, and what they denote.
JsonStrings ==
    {"\"cwd\"", "\"homeDir\"", "\"isInHome\"", "\"/home/fulling\"",
     "\"/home/fulling/app\"", "\"/tmp\""}

Unquote(lexeme) ==
    CASE lexeme = "\"cwd\"" -> "cwd"
      [] lexeme = "\"homeDir\"" -> "homeDir"
      [] lexeme = "\"isInHome\"" -> "isInHome"
      [] lexeme = "\"/home/fulling\"" -> "/home/fulling"
      [] lexeme = "\"/home/fulling/app\"" -> "/home/fulling/app"
      [] lexeme = "\"/tmp\"" -> "/tmp"

JsonFail == [ok |-> FALSE]
JsonOk(value, rest) == [ok |-> TRUE, val |-> value, rest |-> rest]

JsonNull == [type |-> "null"]
JsonScalar(type, v) == [type |-> type, v |-> v]
EmptyObject == [k \in {} |-> JsonNull]
JsonObject(members) == [type |-> "object", v |-> members]

\* JSON.parse, by recursive descent: a value is a quoted string, true,
\* false, null, a number or an object of "key": value members.
RECURSIVE parseValue(_)
RECURSIVE parseMembers(_, _, _)
parseValue(text) ==
    LET t == trimStart(text)
    IN IF t = <<>> THEN JsonFail
       ELSE IF Head(t) \in JsonStrings
            THEN JsonOk(JsonScalar("string", Unquote(Head(t))), Tail(t))
       ELSE IF Head(t) \in {"true", "false"}
            THEN JsonOk(JsonScalar("boolean", Head(t)), Tail(t))
       ELSE IF Head(t) = "null" THEN JsonOk(JsonNull, Tail(t))
       ELSE IF Head(t) \in DigitLexemes
            THEN LET digits == LeadingDigits(t)
                 IN IF Len(digits) > 1 /\ Head(digits) = "0" THEN JsonFail
                    ELSE JsonOk(JsonScalar("number", digits),
                                SubSeq(t, Len(digits) + 1, Len(t)))
       ELSE IF Head(t) = "{"
            THEN parseMembers(trimStart(Tail(t)), EmptyObject, TRUE)
       ELSE JsonFail

\* The members of an object after its opening brace (first) or after a
\* comma, up to and including its closing brace.
parseMembers(t, members, first) ==
    IF t = <<>> THEN JsonFail
    ELSE IF Head(t) = "}"
         THEN IF first THEN JsonOk(JsonObject(members), Tail(t)) ELSE JsonFail
    ELSE IF Head(t) \notin JsonStrings THEN JsonFail
    ELSE LET key == Unquote(Head(t))
             colon == trimStart(Tail(t))
         IN IF colon = <<>> \/ Head(colon) # ":" THEN JsonFail
            ELSE LET value == parseValue(Tail(colon))
                 IN IF ~value.ok THEN JsonFail
                    ELSE LET after == trimStart(value.rest)
                             more == [k \in DOMAIN members \cup {key} |->
                                        IF k = key THEN value.val
                                        ELSE members[k]]
                         IN IF after = <<>> THEN JsonFail
                            ELSE IF Head(after) = "}"
                                 THEN JsonOk(JsonObject(more), Tail(after))
                            ELSE IF Head(after) = ","
                                 THEN parseMembers(trimStart(Tail(after)),
                                                   more, FALSE)
                            ELSE JsonFail

\* JSON.parse(text): the value, or none when it throws a SyntaxError.
JSONparse(text) ==
    LET r == parseValue(text)
    IN IF r.ok /\ trimStart(r.rest) = <<>> THEN {r.val} ELSE {}

\* result.key: the member, or undefined (no value).
Property(value, key) ==
    IF value.type = "object" /\ key \in DOMAIN value.v
    THEN {value.v[key]}
    ELSE {}

\* The settling of the promise that wraps exec.exec.
Resolved == [kind |-> "resolved"]
Rejected(error) == [kind |-> "rejected", error |-> error]

\* new Error(`Command failed: ${status.message || errorOutput}`)
CommandFailed(message, errorOutput) ==
    [text |-> "Command failed: ",
     detail |-> IF message # "" THEN message ELSE errorOutput]

\* The status callback of execCommandInBackground and of
\* getSandboxCurrentDirectory.
statusCallbackChecked(status, message, errorOutput) ==
    IF status = "Success" THEN Resolved
    ELSE Rejected(CommandFailed(message, errorOutput))

\* The status callback of isPortListening and killProcessOnPort.
statusCallbackUnchecked(status, message, errorOutput) == Resolved

BackgroundResult(success, pid, error) ==
    [success |-> success, pid |-> pid, error |-> error]

ParsePidError(stdout) ==
    [text |-> "Failed to parse PID from output: ", output |-> stdout]

\* Mutant: execCommandInBackground reports whatever the script wrote as
\* pid 0.
execCommandInBackgroundNoNaNTest(settled, stdout) ==
    IF settled.kind = "rejected"
    THEN Returned(BackgroundResult(FALSE, {}, {settled.error}))
    ELSE Returned(BackgroundResult(TRUE, {OrZero(parseInt(trim(stdout)))}, {}))

\* execCommandInBackground, after the await.
execCommandInBackground(settled, stdout) ==
    IF settled.kind = "rejected"
    THEN Returned(BackgroundResult(FALSE, {}, {settled.error}))
    ELSE LET pid == parseInt(trim(stdout))
         IN IF pid = {}
            THEN Returned(BackgroundResult(FALSE, {}, {ParsePidError(stdout)}))
            ELSE Returned(BackgroundResult(TRUE, pid, {}))

\* isPortListening, after the await.
isPortListening(settled, stdout) ==
    IF settled.kind = "rejected" THEN Returned(FALSE)
    ELSE Returned(trim(stdout) = <<"listening">>)

KillResult(success, error) == [success |-> success, error |-> error]

KillFailed == [text |-> "Failed to kill process"]

\* killProcessOnPort, after the await.
killProcessOnPort(settled, stdout) ==
    IF settled.kind = "rejected"
    THEN Returned(KillResult(FALSE, {settled.error}))
    ELSE LET result == trim(stdout)
         IN IF startsWithKilled(result) THEN Returned(KillResult(TRUE, {}))
            ELSE IF result = <<"no", " ", "process">>
                 THEN Returned(KillResult(TRUE, {}))
                 ELSE Returned(KillResult(FALSE, {KillFailed}))

DirectoryFailed(error, errorOutput) ==
    [text |-> "Failed to get current directory: ", error |-> error,
     errorOutput |-> errorOutput]

DirectoryParseFailed(stdout, parseError, errorOutput) ==
    [text |-> "Failed to parse directory info. Output: ", output |-> stdout,
     parseError |-> parseError, errorOutput |-> errorOutput]

DirectoryInfo(result) ==
    [cwd |-> Property(result, "cwd"), homeDir |-> Property(result, "homeDir"),
     isInHome |-> Property(result, "isInHome")]

\* Mutant: getSandboxCurrentDirectory returns an empty result when the
\* output does not parse.
getSandboxCurrentDirectoryLenient(settled, stdout, errorOutput) ==
    IF settled.kind = "rejected"
    THEN Thrown(DirectoryFailed(settled.error, errorOutput))
    ELSE LET parsed == JSONparse(trim(stdout))
         IN IF parsed = {} \/ parsed = {JsonNull}
            THEN Returned(DirectoryInfo(JsonNull))
            ELSE Returned(DirectoryInfo(CHOOSE v \in parsed : TRUE))

\* getSandboxCurrentDirectory, after the await: the rejection is rethrown
\* wrapped; a SyntaxError of JSON.parse and the TypeError of reading a
\* property of null are rethrown as the parse failure.
getSandboxCurrentDirectory(settled, stdout, errorOutput) ==
    IF settled.kind = "rejected"
    THEN Thrown(DirectoryFailed(settled.error, errorOutput))
    ELSE LET parsed == JSONparse(trim(stdout))
         IN IF parsed = {}
            THEN Thrown(DirectoryParseFailed(stdout, "SyntaxError", errorOutput))
            ELSE IF parsed = {JsonNull}
                 THEN Thrown(DirectoryParseFailed(stdout, "TypeError",
                                                  errorOutput))
                 ELSE Returned(DirectoryInfo(CHOOSE v \in parsed : TRUE))

ExecFns ==
    {"execCommandInBackground", "isPortListening", "killProcessOnPort",
     "getSandboxCurrentDirectory"}

\* The methods whose status callback tests the status and that collect the
\* standard error.
CheckedFns == {"execCommandInBackground", "getSandboxCurrentDirectory"}

\* What a method does once its promise has settled.
AfterAwait(fn, settled, stdout, errorOutput) ==
    CASE fn = "execCommandInBackground" ->
            execCommandInBackground(settled, stdout)
      [] fn = "isPortListening" -> isPortListening(settled, stdout)
      [] fn = "killProcessOnPort" -> killProcessOnPort(settled, stdout)
      [] fn = "getSandboxCurrentDirectory" ->
            getSandboxCurrentDirectory(settled, stdout, errorOutput)

statusCallback(fn, status, message, errorOutput) ==
    IF fn \in CheckedFns
    THEN statusCallbackChecked(status, message, errorOutput)
    ELSE statusCallbackUnchecked(status, message, errorOutput)

(***************************************************************************)
(* Specification SpecExec: one call of one of the four methods.  The       *)
(* channel either cannot be opened (exec.exec throws inside the promise's  *)
(* executor, or the promise it returns is rejected), or it opens, delivers *)
(* up to MaxChunks chunks of standard output and at most one of standard   *)
(* error, and reports a status.                                            *)
(***************************************************************************)
JsonDirectory ==
    <<"{", "\"cwd\"", ":", "\"/home/fulling/app\"", ",", "\"homeDir\"", ":",
      "\"/home/fulling\"", ",", "\"isInHome\"", ":", "true", "}">>

ExecChunks ==
    {<<"4", "2">>, <<"\n">>, <<"abc">>, <<"-", "1">>,
     <<"listening">>, <<"not", " ", "listening">>,
     <<"killed", " ", "1", "2">>, <<"no", " ", "process">>, <<"failed">>,
     JsonDirectory, <<"{", "\"cwd\"", ":">>, <<"\"/tmp\"", "}">>,
     <<"null">>, <<"{", "}">>}

StderrTexts == {"ERROR: Session file not found"}

StatusMessages == {"", "command terminated with non-zero exit code"}

ChannelErrors == {[text |-> "Unexpected server response: 404"]}

ExecCallOf(fn) ==
    [fn |-> fn, phase |-> "called", output |-> <<>>, errorOutput |-> "",
     chunks |-> 0, status |-> "none", message |-> "", unhandled |-> {}]

InitExec ==
    /\ input \in {ExecCallOf(fn) : fn \in ExecFns}
    /\ output = NoOutput
    /\ client \in HttpShapes
    /\ sts = NoSts
    /\ svc = FALSE
    /\ ing = [r \in Routes |-> FALSE]
    /\ env = NoEnv
    /\ pvc = FALSE
    /\ faults = 0
    /\ pc = [p \in Procs |-> "idle"]
    /\ call = [p \in Procs |-> NoCall]
    /\ last = NoSummary

\* exec.exec is called and the channel opens.
ExecOpens ==
    /\ input.phase = "called"
    /\ input' = [input EXCEPT !.phase = "open"]
    /\ UNCHANGED <<output, client, lifeVars>>

\* exec.exec throws inside the executor: the promise is rejected with the
\* error and the method's catch block runs.
ExecThrows ==
    /\ input.phase = "called"
    /\ \E error \in ChannelErrors :
          /\ input' = [input EXCEPT !.phase = "done", !.status = "thrown"]
          /\ output' = AfterAwait(input.fn, Rejected(error), input.output,
                                  input.errorOutput)
    /\ UNCHANGED <<client, lifeVars>>

\* The promise exec.exec returned is rejected: no handler is attached to
\* it, the status callback is never called, and the promise the method
\* awaits is left unsettled.
ExecRejects ==
    /\ input.phase = "called"
    /\ \E error \in ChannelErrors :
          input' = [input EXCEPT !.phase = "pending", !.status = "refused",
                                 !.unhandled = {error}]
    /\ UNCHANGED <<output, client, lifeVars>>

\* stdoutStream.on('data'): output += chunk.toString()
StdoutData ==
    /\ input.phase = "open"
    /\ input.chunks < MaxChunks
    /\ \E chunk \in ExecChunks :
          input' = [input EXCEPT !.output = @ \o chunk, !.chunks = @ + 1]
    /\ UNCHANGED <<output, client, lifeVars>>

\* stderrStream.on('data'): errorOutput += chunk.toString()
StderrData ==
    /\ input.phase = "open"
    /\ input.fn \in CheckedFns
    /\ input.errorOutput = ""
    /\ \E text \in StderrTexts :
          input' = [input EXCEPT !.errorOutput = text]
    /\ UNCHANGED <<output, client, lifeVars>>

\* The channel reports the status of the script: the callback settles the
\* promise and the method runs to its return or throw.
ChannelStatus ==
    /\ input.phase = "open"
    /\ \E status \in {"Success", "Failure"}, message \in StatusMessages :
          /\ status = "Success" => message = ""
          /\ input' = [input EXCEPT !.phase = "done", !.status = status,
                                    !.message = message]
          /\ output' = AfterAwait(input.fn,
                          statusCallback(input.fn, status, message,
                                         input.errorOutput),
                          input.output, input.errorOutput)
    /\ UNCHANGED <<client, lifeVars>>

NextExec ==
    \/ ExecOpens
    \/ ExecThrows
    \/ ExecRejects
    \/ StdoutData
    \/ StderrData
    \/ ChannelStatus

SpecExec == InitExec /\ [][NextExec]_vars

(***************************************************************************)
(* Claims on the remote exec bridge.                                       *)
(***************************************************************************)
ExecDone(fn) == input.fn = fn /\ input.phase = "done"

\* C27: execCommandInBackground never throws: when the channel reported
\* success and the collected output, trimmed, does not parse to a number
\* it returns success = false with the parse-error message; when the
\* channel reported failure it returns success = false with the failure
\* message; and it returns success = true, with the pid, only when the
\* channel reported success and the output parses to that number.
C27_BackgroundNeverThrows ==
    ExecDone("execCommandInBackground") =>
       LET pid == parseInt(trim(input.output))
       IN /\ ~output.thrown
          /\ (input.status = "Success" /\ pid = {}) =>
                output.value =
                   BackgroundResult(FALSE, {}, {ParsePidError(input.output)})
          /\ input.status = "Failure" =>
                output.value =
                   BackgroundResult(FALSE, {},
                      {CommandFailed(input.message, input.errorOutput)})
          /\ output.value.success =>
                /\ input.status = "Success"
                /\ pid # {}
                /\ output.value.pid = pid

\* The script wrote abc and a line end, the channel reported success, and
\* the call returned the parse failure.
C27_Witness ==
    /\ ExecDone("execCommandInBackground")
    /\ input.status = "Success"
    /\ input.output = <<"abc", "\n">>
    /\ ~output.thrown
    /\ ~output.value.success
    /\ output.value.error = {ParsePidError(<<"abc", "\n">>)}

\* The execution failed: the channel could not be opened, or it reported a
\* status other than success.
ExecutionFailed == input.status \in {"thrown", "refused", "Failure"}

\* C28: killProcessOnPort never throws; when the script ran, it reports
\* success = true if the output says a process was killed or that none was
\* found, and success = false with an error for every other output; and
\* for every execution failure it returns success = false with an error.
C28_KillNeverThrows ==
    input.fn = "killProcessOnPort" =>
       /\ input.phase = "done" =>
             /\ ~output.thrown
             /\ input.status = "Success" =>
                   LET result == trim(input.output)
                   IN IF startsWithKilled(result)
                         \/ result = <<"no", " ", "process">>
                      THEN output.value = KillResult(TRUE, {})
                      ELSE /\ ~output.value.success
                           /\ output.value.error # {}
       /\ ExecutionFailed =>
             /\ input.phase = "done"
             /\ ~output.thrown
             /\ ~output.value.success
             /\ output.value.error # {}

\* C29: isPortListening is fail-closed: it never throws, it returns true
\* only when the collected output, trimmed, is exactly listening, and for
\* every execution failure (the channel cannot be opened, or it reports a
\* status other than success) it returns false.
C29_PortProbeFailClosed ==
    input.fn = "isPortListening" =>
       /\ input.phase = "done" =>
             /\ ~output.thrown
             /\ output.value = TRUE => trim(input.output) = <<"listening">>
       /\ ExecutionFailed =>
             /\ input.phase = "done"
             /\ output = Returned(FALSE)

\* C30: getSandboxCurrentDirectory reports its failures as thrown errors:
\* a status other than success throws the 'Failed to get current
\* directory' error, output that is not valid JSON throws the 'Failed to
\* parse directory info' error, and a call that returns has had a success
\* status and output that parsed, and returns the parsed value's cwd,
\* homeDir and isInHome.
C30_DirectoryFailuresThrown ==
    ExecDone("getSandboxCurrentDirectory") =>
       LET parsed == JSONparse(trim(input.output))
       IN /\ input.status = "Failure" =>
                /\ output.thrown
                /\ output.error =
                      DirectoryFailed(
                         CommandFailed(input.message, input.errorOutput),
                         input.errorOutput)
          /\ (input.status = "Success" /\ parsed = {}) =>
                /\ output.thrown
                /\ output.error.text = "Failed to parse directory info. Output: "
          /\ ~output.thrown =>
                /\ input.status = "Success"
                /\ parsed # {}
                /\ output.value = DirectoryInfo(CHOOSE v \in parsed : TRUE)

\* The script wrote the directory object in two chunks, the channel
\* reported success, and the call returned its three members.
C30_Witness ==
    /\ ExecDone("getSandboxCurrentDirectory")
    /\ input.status = "Success"
    /\ input.output = JsonDirectory \o <<"\n">>
    /\ ~output.thrown
    /\ output.value.cwd = {JsonScalar("string", "/home/fulling/app")}
    /\ output.value.homeDir = {JsonScalar("string", "/home/fulling")}
    /\ output.value.isInHome = {JsonScalar("boolean", "true")}

(***************************************************************************)
(* The facade KubernetesService (src/unnamed/part_000): each sandbox       *)
(* method resolves the namespace and calls one SandboxManager method.  A   *)
(* call of a manager method is the method's name and its arguments in the  *)
(* order they are passed.                                                  *)
(***************************************************************************)
FacadeOps ==
    {"createSandbox", "deleteSandbox", "getSandboxStatus",
     "getSandboxDetailedStatus", "stopSandbox", "startSandbox",
     "updateSandboxEnvVars", "execCommandInBackground", "isPortListening",
     "killProcessOnPort", "getSandboxCurrentDirectory"}

\* The parameters of the SandboxManager methods, in the order of their
\* declarations.
ManagerParams(method) ==
    CASE method = "createSandbox" ->
            <<"projectName", "namespace", "ingressDomain", "sandboxName",
              "envVars">>
      [] method \in {"deleteSandbox", "stopSandbox", "startSandbox",
                     "getSandboxStatus"} -> <<"namespace", "sandboxName">>
      [] method = "getStatefulSetStatus" -> <<"sandboxName", "namespace">>
      [] method = "updateStatefulSetEnvVars" ->
            <<"namespace", "sandboxName", "envVars">>
      [] method = "execCommandInBackground" ->
            <<"namespace", "sandboxName", "command", "workdir">>
      [] method \in {"isPortListening", "killProcessOnPort"} ->
            <<"namespace", "sandboxName", "port">>
      [] method = "getSandboxCurrentDirectory" ->
            <<"namespace", "sandboxName", "sessionId">>

ManagerCall(method, args) == [method |-> method, args |-> args]

\* Mutant: getSandboxDetailedStatus passes the namespace first.
KubernetesServiceNamespaceFirst(op, a, defaultNamespace, ingressDomain) ==
    LET namespace == IF a.namespace # "" THEN a.namespace ELSE defaultNamespace
    IN IF op = "getSandboxDetailedStatus"
       THEN ManagerCall("getStatefulSetStatus", <<namespace, a.sandboxName>>)
       ELSE ManagerCall(op, <<namespace, a.sandboxName>>)

\* The sandbox methods of KubernetesService: `namespace = namespace ||
\* this.defaultNamespace`, then the call of the manager.
KubernetesService(op, a, defaultNamespace, ingressDomain) ==
    LET namespace == IF a.namespace # "" THEN a.namespace ELSE defaultNamespace
    IN CASE op = "createSandbox" ->
               ManagerCall("createSandbox",
                  <<a.projectName, namespace, ingressDomain, a.sandboxName,
                    a.envVars>>)
         [] op = "deleteSandbox" ->
               ManagerCall("deleteSandbox", <<namespace, a.sandboxName>>)
         [] op = "getSandboxStatus" ->
               ManagerCall("getSandboxStatus", <<namespace, a.sandboxName>>)
         [] op = "getSandboxDetailedStatus" ->
               ManagerCall("getStatefulSetStatus", <<a.sandboxName, namespace>>)
         [] op = "stopSandbox" ->
               ManagerCall("stopSandbox", <<namespace, a.sandboxName>>)
         [] op = "startSandbox" ->
               ManagerCall("startSandbox", <<namespace, a.sandboxName>>)
         [] op = "updateSandboxEnvVars" ->
               ManagerCall("updateStatefulSetEnvVars",
                  <<namespace, a.sandboxName, a.envVars>>)
         [] op = "execCommandInBackground" ->
               ManagerCall("execCommandInBackground",
                  <<namespace, a.sandboxName, a.command, a.workdir>>)
         [] op = "isPortListening" ->
               ManagerCall("isPortListening",
                  <<namespace, a.sandboxName, a.port>>)
         [] op = "killProcessOnPort" ->
               ManagerCall("killProcessOnPort",
                  <<namespace, a.sandboxName, a.port>>)
         [] op = "getSandboxCurrentDirectory" ->
               ManagerCall("getSandboxCurrentDirectory",
                  <<namespace, a.sandboxName, a.sessionId>>)

(***************************************************************************)
(* Specification SpecFacade: one call of a sandbox method of the facade,   *)
(* with a namespace that is given or empty, on a service whose kubeconfig  *)
(* holds a default namespace and an ingress domain.                        *)
(***************************************************************************)
FacadeArgs ==
    [namespace : Namespaces \cup {""}, sandboxName : SandboxNames,
     projectName : {ProjectName},
     envVars : {NoEnv, EnvMap({"NODE_ENV"}, "production")},
     command : {"pnpm dev"}, workdir : {{}, {"/home/fulling/next"}},
     port : {3000}, sessionId : {"sess-1"}]

NoManagerCall == ManagerCall("none", <<>>)

InitFacade ==
    /\ input \in [op : FacadeOps, args : FacadeArgs,
                  defaultNamespace : {"ns-kubeconfig"},
                  ingressDomain : IngressDomains]
    /\ output = NoManagerCall
    /\ client \in HttpShapes
    /\ sts = NoSts
    /\ svc = FALSE
    /\ ing = [r \in Routes |-> FALSE]
    /\ env = NoEnv
    /\ pvc = FALSE
    /\ faults = 0
    /\ pc = [p \in Procs |-> "idle"]
    /\ call = [p \in Procs |-> NoCall]
    /\ last = NoSummary

\* The facade method runs up to its call of the manager.
FacadeCall ==
    /\ output = NoManagerCall
    /\ output' = KubernetesService(input.op, input.args,
                                   input.defaultNamespace, input.ingressDomain)
    /\ UNCHANGED <<input, client, lifeVars>>

NextFacade == FacadeCall

SpecFacade == InitFacade /\ [][NextFacade]_vars

(***************************************************************************)
(* Claims on the facade.                                                   *)
(***************************************************************************)
\* The manager method that serves the purpose of a facade method.
SamePurpose(op) ==
    CASE op = "getSandboxDetailedStatus" -> "getStatefulSetStatus"
      [] op = "updateSandboxEnvVars" -> "updateStatefulSetEnvVars"
      [] OTHER -> op

\* The argument a manager call passes for the parameter named.
Passed(mc, param) ==
    LET params == ManagerParams(mc.method)
    IN mc.args[CHOOSE i \in 1..Len(params) : params[i] = param]

ParamsOf(mc) ==
    LET params == ManagerParams(mc.method)
    IN {params[i] : i \in 1..Len(params)}

\* C31: the facade adds nothing but parameter defaulting: a facade method
\* calls the manager method of the same purpose, with as many arguments
\* as that method declares, the namespace being the given one or, when it
\* is empty, the default namespace, the ingress domain (for create) being
\* the kubeconfig's, and every other parameter receiving the caller's
\* argument of that name.
C31_FacadeDelegates ==
    output # NoManagerCall =>
       LET a == input.args
       IN /\ output.method = SamePurpose(input.op)
          /\ Len(output.args) = Len(ManagerParams(output.method))
          /\ Passed(output, "namespace") =
                IF a.namespace = "" THEN input.defaultNamespace
                ELSE a.namespace
          /\ Passed(output, "sandboxName") = a.sandboxName
          /\ \A param \in ParamsOf(output) :
                CASE param = "ingressDomain" ->
                        Passed(output, param) = input.ingressDomain
                  [] param = "projectName" ->
                        Passed(output, param) = a.projectName
                  [] param = "envVars" -> Passed(output, param) = a.envVars
                  [] param = "command" -> Passed(output, param) = a.command
                  [] param = "workdir" -> Passed(output, param) = a.workdir
                  [] param = "port" -> Passed(output, param) = a.port
                  [] param = "sessionId" ->
                        Passed(output, param) = a.sessionId
                  [] OTHER -> TRUE

\* getSandboxDetailedStatus was called with an empty namespace and has
\* called getStatefulSetStatus with the sandbox name first and the default
\* namespace second.
C31_Witness ==
    /\ input.op = "getSandboxDetailedStatus"
    /\ input.args.namespace = ""
    /\ output = ManagerCall("getStatefulSetStatus",
                            <<input.args.sandboxName, "ns-kubeconfig">>)

(***************************************************************************)
(* Specification SpecNames: the names derived for two sandbox names of one *)
(* namespace.                                                              *)
(***************************************************************************)
\* `${sandboxName}-0`: the pod of the workload.
podName(sandboxName) == sandboxName \o "-0"

\* `vn-homevn-fulling-${sandboxName}-0`: the storage claim of that pod.
pvcName(sandboxName) == "vn-homevn-fulling-" \o sandboxName \o "-0"

ResourceKinds == {"service", "pod", "pvc"} \cup Routes

\* Mutant: the routes of a sandbox share one ingress name.
DerivedNameOneIngress(kind, sandboxName) ==
    CASE kind = "service" -> getServiceName(sandboxName)
      [] kind = "pod" -> podName(sandboxName)
      [] kind = "pvc" -> pvcName(sandboxName)
      [] OTHER -> sandboxName \o "-ingress"

\* The name of the resource of a kind that belongs to a sandbox.
DerivedName(kind, sandboxName) ==
    CASE kind = "service" -> getServiceName(sandboxName)
      [] kind = "app" -> getAppIngressName(sandboxName)
      [] kind = "ttyd" -> getTtydIngressName(sandboxName)
      [] kind = "filebrowser" -> getFileBrowserIngressName(sandboxName)
      [] kind = "pod" -> podName(sandboxName)
      [] kind = "pvc" -> pvcName(sandboxName)

DerivedNames(sandboxName) ==
    [kind \in ResourceKinds |-> DerivedName(kind, sandboxName)]

\* Sandbox names, among them names that end like a derived name or begin
\* like the claim template.
NamingInputs ==
    SandboxNames \cup
       {"acme", "acme-x1-0", "acme-x1-app", "acme-x1-ttyd", "acme-x1-service",
        "vn-homevn-fulling-acme-x1", "acme-x1-app-ingress", "x1"}

NoNames == [first |-> {}, second |-> {}, again |-> {}]

InitNames ==
    /\ input \in [first : NamingInputs, second : NamingInputs]
    /\ output = NoNames
    /\ client \in HttpShapes
    /\ sts = NoSts
    /\ svc = FALSE
    /\ ing = [r \in Routes |-> FALSE]
    /\ env = NoEnv
    /\ pvc = FALSE
    /\ faults = 0
    /\ pc = [p \in Procs |-> "idle"]
    /\ call = [p \in Procs |-> NoCall]
    /\ last = NoSummary

\* The names of the two sandboxes are derived, those of the first twice.
DeriveNames ==
    /\ output = NoNames
    /\ output' = [first |-> {DerivedNames(input.first)},
                  second |-> {DerivedNames(input.second)},
                  again |-> {DerivedNames(input.first)}]
    /\ UNCHANGED <<input, client, lifeVars>>

NextNames == DeriveNames

SpecNames == InitNames /\ [][NextNames]_vars

\* C32: the naming scheme is deterministic and collision-free: the names
\* derived twice for one sandbox name are the same and are the documented
\* ones, the three route names of a sandbox are pairwise distinct, and for
\* two distinct sandbox names the names of the resources of one kind
\* differ.
C32_NamesCollisionFree ==
    output # NoNames =>
       LET first == CHOOSE n \in output.first : TRUE
           second == CHOOSE n \in output.second : TRUE
       IN /\ output.again = output.first
          /\ first["service"] = input.first \o "-service"
          /\ first["app"] = input.first \o "-app-ingress"
          /\ first["ttyd"] = input.first \o "-ttyd-ingress"
          /\ first["filebrowser"] = input.first \o "-filebrowser-ingress"
          /\ first["pod"] = input.first \o "-0"
          /\ first["pvc"] = "vn-homevn-fulling-" \o input.first \o "-0"
          /\ \A r1, r2 \in Routes : r1 # r2 => first[r1] # first[r2]
          /\ input.first # input.second =>
                \A kind \in ResourceKinds : first[kind] # second[kind]

\* The names of acme-x1 and of acme-x1-app have been derived: the app
\* route of the first is named as the second sandbox's prefix continues,
\* yet no two resources of one kind share a name.
C32_Witness ==
    /\ output # NoNames
    /\ input.first = "acme-x1"
    /\ input.second = "acme-x1-app"
    /\ (CHOOSE n \in output.first : TRUE)["app"] = "acme-x1-app-ingress"
    /\ (CHOOSE n \in output.second : TRUE)["app"] = "acme-x1-app-app-ingress"

(***************************************************************************)
(* The workload object with its containers: what createStatefulSet         *)
(* submits, and what updateStatefulSetEnvVars builds from the object it    *)
(* read.                                                                   *)
(***************************************************************************)
\* Mutant: the primary container is named after the project.
containersNamedByProject(sandboxName, envVars) ==
    <<[name |-> ProjectName, image |-> "runtime",
       env |-> EnvArray(containerEnv(envVars, ProjectName))],
      [name |-> "filebrowser", image |-> "filebrowser/filebrowser:v2-s6",
       env |-> EnvArray(EnvMap({"FILE_BROWSER_USERNAME",
                                "FILE_BROWSER_PASSWORD"}, "admin"))]>>

\* spec.template.spec.containers of the workload createStatefulSet
\* submits: the primary container, named as the sandbox, and the
\* file-browser container, whose credentials are containerEnv[key] ||
\* 'admin'.
containers(sandboxName, envVars) ==
    LET cenv == containerEnv(envVars, ProjectName)
        orAdmin(key) ==
           IF Truthy(MapGet(cenv, key)) THEN cenv[key] ELSE "admin"
    IN <<[name |-> sandboxName, image |-> "runtime", env |-> EnvArray(cenv)],
         [name |-> "filebrowser", image |-> "filebrowser/filebrowser:v2-s6",
          env |-> EnvArray([key \in {"FILE_BROWSER_USERNAME",
                                     "FILE_BROWSER_PASSWORD"} |->
                               orAdmin(key)])]>>

\* The workload createStatefulSet submits.
statefulSet(sandboxName, envVars) ==
    [name |-> sandboxName, replicas |-> CreatedReplicas,
     serviceName |-> getServiceName(sandboxName),
     containers |-> containers(sandboxName, envVars)]

\* containers.find((container) => container.name === sandboxName)
find(cs, sandboxName) ==
    LET hits == {i \in DOMAIN cs : cs[i].name = sandboxName}
    IN IF hits = {} THEN {}
       ELSE {cs[CHOOSE i \in hits : \A j \in hits : i <= j]}

\* Mutant: the env built is given to every container.
updatedObjectAllContainers(read, sandboxName, envVars) ==
    LET mainContainer == CHOOSE m \in find(read.containers, sandboxName) : TRUE
        updatedEnv == EnvArray(Merge(CurrentEnvMap(mainContainer.env), envVars))
    IN [read EXCEPT !.containers =
          [i \in DOMAIN read.containers |->
              [read.containers[i] EXCEPT !.env = updatedEnv]]]

\* updatedStatefulSet with its containers: {...statefulSet, spec:
\* {...spec, template: {...template, spec: {...spec, containers}}}}, the
\* containers mapped so that the one named sandboxName gets updatedEnv.
updatedObject(read, sandboxName, envVars) ==
    LET mainContainer == CHOOSE m \in find(read.containers, sandboxName) : TRUE
        updatedEnv == EnvArray(Merge(CurrentEnvMap(mainContainer.env), envVars))
    IN [read EXCEPT !.containers =
          [i \in DOMAIN read.containers |->
              IF read.containers[i].name = sandboxName
              THEN [read.containers[i] EXCEPT !.env = updatedEnv]
              ELSE read.containers[i]]]

\* updateStatefulSetEnvVars on the workload stored (none: {}): what it
\* returns and the object it submits, if it submits one.
updateStatefulSetEnvVars(stored, sandboxName, envVars) ==
    IF stored = {} THEN [ret |-> FALSE, body |-> {}]
    ELSE LET read == CHOOSE o \in stored : TRUE
             mainContainer == find(read.containers, sandboxName)
         IN IF mainContainer = {} THEN [ret |-> FALSE, body |-> {}]
            ELSE IF ~hasChanges(
                       CurrentEnvMap((CHOOSE m \in mainContainer : TRUE).env),
                       envVars)
                 THEN [ret |-> TRUE, body |-> {}]
                 ELSE [ret |-> TRUE,
                       body |-> {updatedObject(read, sandboxName, envVars)}]

(***************************************************************************)
(* Specification SpecObject: a caller's successive createSandbox,          *)
(* stopSandbox, startSandbox, updateStatefulSetEnvVars and deleteSandbox   *)
(* calls for one sandbox name, each run to its end on a cluster that       *)
(* starts without the workload and fails no request.  input holds the      *)
(* sandbox name and the workload stored, output the last call.             *)
(***************************************************************************)
ObjectEnvVars ==
    {NoEnv, EnvMap({"FILE_BROWSER_PASSWORD"}, "s3cret")}
        \cup {EnvMap({"NODE_ENV"}, v) : v \in UpdateValues}
        \cup {EnvMap({"DATABASE_URL"}, "v1")}

NoObjectCall == [op |-> "none", read |-> {}, body |-> {}, ret |-> Void]

ObjectCall(op, read, body, ret) ==
    [op |-> op, read |-> read, body |-> body, ret |-> ret]

InitObject ==
    /\ input \in [sandboxName : SandboxNames, stored : {{}}]
    /\ output = NoObjectCall
    /\ client \in HttpShapes
    /\ sts = NoSts
    /\ svc = FALSE
    /\ ing = [r \in Routes |-> FALSE]
    /\ env = NoEnv
    /\ pvc = FALSE
    /\ faults = 0
    /\ pc = [p \in Procs |-> "idle"]
    /\ call = [p \in Procs |-> NoCall]
    /\ last = NoSummary

\* createSandbox: createStatefulSet submits the workload unless one is
\* there.
ObjectCreate ==
    /\ \E envVars \in ObjectEnvVars :
          /\ input' = [input EXCEPT !.stored =
                          IF @ = {}
                          THEN {statefulSet(input.sandboxName, envVars)}
                          ELSE @]
          /\ output' = ObjectCall("create", input.stored, {}, Void)
    /\ UNCHANGED <<client, lifeVars>>

\* stopSandbox (value 0) or startSandbox (value 1): the patch of
\* /spec/replicas when the branch after the read is to patch.
ObjectScale(op, d, value) ==
    /\ input' = [input EXCEPT !.stored =
                    IF d = "patch"
                    THEN {[o EXCEPT !.replicas = value] : o \in @}
                    ELSE @]
    /\ output' = ObjectCall(op, input.stored, {}, Void)
    /\ UNCHANGED <<client, lifeVars>>

StoredRead(stored) ==
    Returned({[specReplicas |-> {o.replicas}] : o \in stored})

ObjectStop ==
    ObjectScale("stop", stopAfterRead(StoredRead(input.stored)), StopReplicas)

ObjectStart ==
    ObjectScale("start", startAfterRead(StoredRead(input.stored)),
                StartReplicas)

\* updateStatefulSetEnvVars and the replace of the workload by the object
\* it built.
ObjectUpdate ==
    /\ \E envVars \in ObjectEnvVars :
          LET r == updateStatefulSetEnvVars(input.stored, input.sandboxName,
                                            envVars)
          IN /\ input' = [input EXCEPT !.stored =
                             IF r.body = {} THEN @ ELSE r.body]
             /\ output' = ObjectCall("update", input.stored, r.body,
                                     Bool(r.ret))
    /\ UNCHANGED <<client, lifeVars>>

\* deleteSandbox: the workload is deleted.
ObjectDelete ==
    /\ input' = [input EXCEPT !.stored = {}]
    /\ output' = ObjectCall("delete", input.stored, {}, Void)
    /\ UNCHANGED <<client, lifeVars>>

NextObject ==
    \/ ObjectCreate
    \/ ObjectStop
    \/ ObjectStart
    \/ ObjectUpdate
    \/ ObjectDelete

SpecObject == InitObject /\ [][NextObject]_vars

\* C33: the object updateStatefulSetEnvVars submits differs from the
\* object it read only in the env of the container named as the sandbox:
\* every other container, the replica count and every other field are the
\* ones read.
C33_ReplaceFrame ==
    (output.op = "update" /\ output.body # {}) =>
       \A read \in output.read : \A body \in output.body :
          /\ DOMAIN body.containers = DOMAIN read.containers
          /\ \A i \in DOMAIN read.containers :
                IF read.containers[i].name = input.sandboxName
                THEN body.containers[i] =
                        [read.containers[i] EXCEPT
                            !.env = body.containers[i].env]
                ELSE body.containers[i] = read.containers[i]
          /\ body = [read EXCEPT !.containers = body.containers]

\* An update of a stopped workload whose file-browser password was set
\* at creation has submitted an object with a changed primary env.
C33_Witness ==
    /\ output.op = "update"
    /\ \E read \in output.read : \E body \in output.body :
          /\ read.replicas = 0
          /\ body.containers[1].env # read.containers[1].env
          /\ MapGet(read.containers[2].env, "FILE_BROWSER_PASSWORD")
                = {{"s3cret"}}

\* C34: for a workload created by createSandbox and changed only by
\* these operations, updateStatefulSetEnvVars returns false exactly when
\* the workload does not exist.
C34_FalseIffAbsent ==
    output.op = "update" =>
       (output.ret = Bool(FALSE) <=> output.read = {})

\* An update has returned true for a workload that an earlier update had
\* already rewritten and a stop had scaled down.
C34_Witness ==
    /\ output.op = "update"
    /\ output.ret = Bool(TRUE)
    /\ \E read \in output.read :
          /\ read.replicas = 0
          /\ MapGet(read.containers[1].env, "NODE_ENV") = {{"v2"}}

(***************************************************************************)
(* Specification SpecRace: on a sandbox that exists, stopped or running,   *)
(* caller 1 updates NODE_ENV while caller 2 updates DATABASE_URL, stops    *)
(* or starts, once; the requests of the two interleave in every order and  *)
(* the cluster may fail up to MaxFaults of them.                           *)
(***************************************************************************)
InitRace ==
    /\ input = NoInput
    /\ output = NoOutput
    /\ client \in HttpShapes
    /\ sts \in {[exists |-> TRUE, replicas |-> n] :
                   n \in {StopReplicas, StartReplicas}}
    /\ svc = TRUE
    /\ ing = [r \in Routes |-> TRUE]
    /\ env = EnvArray(containerEnv(DefaultEnvVars, ProjectName))
    /\ pvc = TRUE
    /\ faults = MaxFaults
    /\ pc = [p \in Procs |-> "idle"]
    /\ call = [p \in Procs |-> NoCall]
    /\ last = NoSummary

BeginRace(p) ==
    /\ call[p].n < (IF p = 1 THEN MaxCalls ELSE 1)
    /\ \/ /\ p = 1
          /\ BeginOf(p, {"update"},
                     {EnvMap({"NODE_ENV"}, v) : v \in UpdateValues})
       \/ /\ p = 2
          /\ BeginOf(p, {"update"},
                     {EnvMap({"DATABASE_URL"}, v) : v \in UpdateValues})
       \/ /\ p = 2
          /\ BeginOf(p, {"stop", "start"}, {NoEnv})

NextRace == \E p \in Procs : BeginRace(p) \/ MutateStep(p)

SpecRace == InitRace /\ [][NextRace]_vars

InitRecreate ==
    /\ input = NoInput
    /\ output = NoOutput
    /\ client \in HttpShapes
    /\ sts \in {NoSts} \cup {[exists |-> TRUE, replicas |-> n] :
                                n \in {StopReplicas, StartReplicas}}
    /\ svc = sts.exists
    /\ ing = [r \in Routes |-> sts.exists]
    /\ env \in IF sts.exists
               THEN {EnvArray(containerEnv(m, ProjectName)) :
                        m \in {DefaultEnvVars, EnvMap({"NODE_ENV"}, "v1")}}
               ELSE {NoEnv}
    /\ pvc = sts.exists
    /\ faults = MaxFaults
    /\ pc = [p \in Procs |-> "idle"]
    /\ call = [p \in Procs |-> NoCall]
    /\ last = NoSummary

BeginRecreate(p) ==
    /\ call[p].n = 0
    /\ \/ /\ p = 1
          /\ BeginOf(p, {"create"}, CreateEnvVars)
       \/ /\ p = 2
          /\ BeginUnrecorded(p, {"stop", "start"}, {NoEnv})

NextRecreate == \E p \in Procs : BeginRecreate(p) \/ Step(p)

SpecRecreate == InitRecreate /\ [][NextRecreate]_vars

\* C37: no request of a createSandbox call changes a workload that exists
\* when the request is made: its replica count (a stopped workload stays
\* stopped) and its environment stay, whatever env map was passed.
C37_CreateKeepsExisting ==
    [][\A p \in Procs :
          (/\ call[p].op = "create"
           /\ pc[p] \notin {"idle", "done"}
           /\ pc'[p] # pc[p]
           /\ sts.exists) =>
             /\ sts' = sts
             /\ env' = env]_vars

\* A createSandbox call with another env map than the stopped workload's
\* has returned, and the workload is stopped with the environment it had.
C37_Witness ==
    /\ call[1].op = "create"
    /\ call[1].n = 1
    /\ Done(1)
    /\ call[1].outcome = "ok"
    /\ call[1].pre[1].exists
    /\ call[1].pre[1].replicas = StopReplicas
    /\ EnvArray(containerEnv(call[1].arg, ProjectName)) # call[1].pre[5]
    /\ call[2].n = 0
    /\ sts = call[1].pre[1]
    /\ env = call[1].pre[5]

\* The objects a read of the workload can return: the declared replica
\* count stored, and any observed counters.
ObservedObjects ==
    {o \in StsObjects : o.specReplicas = {sts.replicas}}

\* C38: after stopSandbox has returned without throwing for a workload
\* that exists, and until the next operation begins, every
\* getStatefulSetStatus whose read succeeds returns STOPPING or STOPPED,
\* whatever the counters observed.
C38_StoppedAfterStop ==
    (/\ Quiescent
     /\ last.op = "stop"
     /\ last.outcome = "ok"
     /\ sts.exists) =>
       \A o \in ObservedObjects :
          LET r == getStatefulSetStatus(
                      readNamespacedStatefulSet({o}, NoFault, client))
          IN /\ ~r.thrown
             /\ r.value.status \in {"STOPPING", "STOPPED"}

\* A stop has patched the workload another caller had created, no call is
\* in progress, and a read that still observes a ready pod is answered
\* STOPPING.
C38_Witness ==
    /\ Quiescent
    /\ last.op = "stop"
    /\ last.outcome = "ok"
    /\ last.patches = <<StopReplicas>>
    /\ call[2].op = "create"
    /\ sts.exists
    /\ \E o \in ObservedObjects :
          /\ o.readyReplicas = {1}
          /\ o.currentReplicas = {1}
          /\ getStatefulSetStatus(
                readNamespacedStatefulSet({o}, NoFault, client)).value.status
               = "STOPPING"

\* C39: every call of the exec bridge eventually returns or throws, for
\* every outcome of the exec channel: as long as the call has neither
\* returned nor thrown, a step that brings it further is possible.
C39_ExecCallCompletes == input.phase = "done" \/ ENABLED NextExec

(***************************************************************************)
(* The start-application polling loop of useAppRunner.                     *)
(***************************************************************************)
maxAttempts == 30
MaxStartCalls == 2      \* startApp calls made on one mounted hook

\* What the exec channel of a probe does, and the output collected.
Probes ==
    [channel : {"Success", "Failure", "thrown", "refused"},
     stdout : {<<"listening">>, <<"not", " ", "listening">>}]

\* GET /api/sandbox/[id]/app-status: {running: await isPortListening(...)};
\* no answer ({}) when isPortListening never returns.
appStatus(probe) ==
    IF probe.channel = "refused" THEN {}
    ELSE LET settled == IF probe.channel = "thrown"
                        THEN Rejected(CHOOSE error \in ChannelErrors : TRUE)
                        ELSE statusCallback("isPortListening", probe.channel,
                                            "", "")
         IN {[running |-> isPortListening(settled, probe.stdout).value]}

\* pollStatus: data.running of the answer, false when the fetch or the
\* parse of its answer fails.
pollStatus(failed, answer) ==
    IF failed THEN FALSE ELSE (CHOOSE data \in answer : TRUE).running

Loops == 1..MaxStartCalls

NoLoop == [at |-> "none", attempts |-> 0]

\* The hook: its state isStartingApp and isAppRunning, the isStartingApp
\* the current startApp callback was rendered with, the exec requests
\* sent, the startApp calls made, whether a probe has reported listening,
\* and the polling loop of every startApp call that passed the guard.
HookOf(sandboxId) ==
    [sandboxId |-> sandboxId, isStartingApp |-> FALSE, rendered |-> FALSE,
     isAppRunning |-> FALSE, requests |-> 0, calls |-> 0,
     listening |-> FALSE, loops |-> [l \in Loops |-> NoLoop]]

NoStartCall == [op |-> "none", guard |-> FALSE, sent |-> FALSE]

InitRunner ==
    /\ input \in {HookOf(sandboxId) : sandboxId \in {{}, {"sb-1"}}}
    /\ output = NoStartCall
    /\ client \in HttpShapes
    /\ sts = NoSts
    /\ svc = FALSE
    /\ ing = [r \in Routes |-> FALSE]
    /\ env = NoEnv
    /\ pvc = FALSE
    /\ faults = 0
    /\ pc = [p \in Procs |-> "idle"]
    /\ call = [p \in Procs |-> NoCall]
    /\ last = NoSummary

\* startApp(): returns at once without a sandbox id or when the callback
\* was rendered with isStartingApp true; else sets isStartingApp, sends
\* the exec request and starts poll().
startApp ==
    /\ input.calls < MaxStartCalls
    /\ IF input.sandboxId = {} \/ input.rendered
       THEN /\ input' = [input EXCEPT !.calls = @ + 1]
            /\ output' = [op |-> "startApp", guard |-> input.rendered,
                          sent |-> FALSE]
       ELSE /\ input' = [input EXCEPT
                            !.calls = @ + 1,
                            !.isStartingApp = TRUE,
                            !.requests = @ + 1,
                            !.loops[input.requests + 1] =
                               [at |-> "while", attempts |-> 0]]
            /\ output' = [op |-> "startApp", guard |-> input.rendered,
                          sent |-> TRUE]
    /\ UNCHANGED <<client, lifeVars>>

\* The component renders again: startApp is rebuilt with the state.
Render ==
    /\ input.rendered # input.isStartingApp
    /\ input' = [input EXCEPT !.rendered = input.isStartingApp]
    /\ UNCHANGED <<output, client, lifeVars>>

\* while (attempts < maxAttempts) { attempts++; fetch app-status ... };
\* after the loop setIsStartingApp(false).
pollWhile(l) ==
    /\ input.loops[l].at = "while"
    /\ input' = IF input.loops[l].attempts < maxAttempts
                THEN [input EXCEPT !.loops[l].attempts = @ + 1,
                                   !.loops[l].at = "fetch"]
                ELSE [input EXCEPT !.isStartingApp = FALSE,
                                   !.loops[l].at = "ended"]
    /\ UNCHANGED <<output, client, lifeVars>>

\* The fetch of the probe settles, or the route never answers: running
\* sets isAppRunning, clears isStartingApp and ends the loop; otherwise
\* the loop waits ten seconds.
pollAnswer(l) ==
    /\ input.loops[l].at = "fetch"
    /\ \E failed \in BOOLEAN, probe \in Probes :
          LET answer == appStatus(probe)
          IN IF ~failed /\ answer = {}
             THEN input' = [input EXCEPT !.loops[l].at = "unanswered"]
             ELSE IF pollStatus(failed, answer)
                  THEN input' = [input EXCEPT !.isAppRunning = TRUE,
                                              !.isStartingApp = FALSE,
                                              !.listening = TRUE,
                                              !.loops[l].at = "ended"]
                  ELSE input' = [input EXCEPT !.loops[l].at = "timeout"]
    /\ UNCHANGED <<output, client, lifeVars>>

\* setTimeout(resolve, 10000) fires.
pollTimeout(l) ==
    /\ input.loops[l].at = "timeout"
    /\ input' = [input EXCEPT !.loops[l].at = "while"]
    /\ UNCHANGED <<output, client, lifeVars>>

poll(l) == pollWhile(l) \/ pollAnswer(l) \/ pollTimeout(l)

NextRunner ==
    \/ startApp
    \/ Render
    \/ \E l \in Loops : pollWhile(l)
    \/ \E l \in Loops : pollAnswer(l)
    \/ \E l \in Loops : pollTimeout(l)

SpecRunner == InitRunner /\ [][NextRunner]_vars

\* Every polling loop has made at most maxAttempts probes.
ProbesBounded == \A l \in Loops : input.loops[l].attempts <= maxAttempts

\* isAppRunning is true only after a probe reported listening, and the
\* loop of that probe has ended.
RunningAfterListening ==
    input.isAppRunning =>
       /\ input.listening
       /\ \E l \in Loops : input.loops[l].at = "ended"

\* A startApp call made while the hook showed isStartingApp true sent no
\* exec request.
GuardedStart == (output.op = "startApp" /\ output.guard) => ~output.sent

\* A polling loop that has begun and not ended has a step to take.
LoopsProceed ==
    \A l \in Loops :
       input.loops[l].at \notin {"none", "ended"} => ENABLED poll(l)

\* C40: the polling loop of startApp terminates: at most maxAttempts
\* probes, isAppRunning true only after a probe reported listening, no
\* second exec request from a call made while isStartingApp is true, and
\* in every run the loop goes on until isStartingApp is false again.
C40_PollingTerminates ==
    /\ ProbesBounded
    /\ RunningAfterListening
    /\ GuardedStart
    /\ LoopsProceed

====
